---- MODULE Spec2Model ----
(***************************************************************************)
(* Urban-Vitals: neighbourhood discovery (neighbourhood_scraper.py), the   *)
(* pipeline runner (run_pipeline.py), the geocoders (Coordinate_finder.py, *)
(* enhanced_geocoder.py) and the chatbot's conversation context            *)
(* (backend/chatbot/chatbot.py).                                           *)
(*                                                                         *)
(* Text is modelled by TLA+ strings; a character is a string of length 1   *)
(* and is read with SubSeq(s, i, i).  JSON payloads are modelled by tagged *)
(* records, and the outcome of a Python call by a record                   *)
(* [exc |-> "none" or the exception raised, val |-> the value returned].   *)
(***************************************************************************)
EXTENDS Integers, Sequences, FiniteSets, TLC

VARIABLES
    \* ---- run_pipeline.py --------------------------------------------
    pipePc,        \* position of run_pipeline.main
    pipeInput,     \* sys.argv[1]
    pipeStage,     \* index of the pipeline step being run (1..5)
    stageStarted,  \* the steps handed to run_command so far, in order
    stageExit,     \* what run_command saw of each step it has run
    pipeExit,      \* exit status of run_pipeline itself ("none" while running)
    \* ---- neighbourhood_scraper.py -----------------------------------
    scrPc,         \* position of neighbourhood_scraper.main / scrape
    scrArg,        \* args.city_state
    scrCity,       \* city after the split
    areas,         \* the local variable areas of scrape
    consulted,     \* the name sources called so far, in order
    sourceRet,     \* what each consulted source did: "empty", "nonempty", "raised"
    scrResult,     \* the list returned by scrape
    scrExit,       \* exit status of the scraper process ("none" while running)
    scrFile,       \* the --output-file: whether it was written, and its content
    \* ---- Coordinate_finder.py ---------------------------------------
    google_api_key,   \* whether GOOGLE_API_KEY is set
    use_google,       \* self.use_google
    geoPc,            \* position of find_coordinates_for_city
    neighbourhoods,   \* the list the lookups are created from
    cityGoogle,       \* the answer Google gave to the city verification
    task,             \* the coroutines _get_neighbourhood_coords, one per entry
    finished,         \* the indices of the lookups that returned, in that order
    results,          \* the list find_coordinates_for_city returns
    \* ---- backend/chatbot/chatbot.py ---------------------------------
    model_ready,                   \* self.tandemn_api_key and self.model are set
    refined_data,                  \* self.refined_data, in the order of the file
    lewc_data,                     \* self.lewc_data
    definitions_data,              \* self.definitions_data
    conversation_history,          \* self.conversation_history
    current_neighborhood,          \* conversation_context["current_neighborhood"]
    last_mentioned_neighborhoods,  \* conversation_context["last_mentioned_neighborhoods"]
    last_discussed_topics,         \* conversation_context["last_discussed_topics"]
    session_facts,                 \* conversation_context["session_facts"]
    total_tokens,                  \* conversation_context["co2_stats"]["total_tokens"]
    lastTurn,                      \* the arguments and the outcome of the last call
    resolveCall,                   \* one call of _resolve_pronouns_and_references
    mentionCall,                   \* one call of _find_mentioned_neighborhoods
    \* ---- backend/main.py ---------------------------------------------
    inflight,                      \* the chat_message request the event loop is serving
    \* ---- Scraper-Agent/data_exp.py ------------------------------------
    cerebras_api_key,       \* whether CEREBRAS_API_KEY is set
    rwInput,                \* the --input-file: whether it exists, and its content
    all_neighborhood_data,  \* the loaded data, rewritten in place
    rwPc,                   \* position of process_data_with_cerebras
    rwPos,                  \* how many explanations the loop has taken up
    rewrite,                \* the running call of rewrite_explanation_with_cerebras
    rwLog,                  \* what each finished call returned, in order
    rwFile,                 \* the --output-file: whether it was written, and its content
    \* ---- Scraper-Agent/gs_converter.py ---------------------------------
    personalized_data,      \* the loaded --input-file
    gsPc,                   \* position of calculate_and_finalize_data
    finalized_report,       \* the report built so far
    gsFile,                 \* the --output-file: whether it was written, and its content
    gsRun,                  \* which run of gs_converter.py this is
    \* ---- Scraper-Agent/data_exp_2.py ----------------------------------
    feInput,                \* the --input-file: whether it exists, and its content
    feEnv,                  \* what the AQI and Overpass servers do in this run
    fePc,                   \* position of generate_sustainability_data
    fePos,                  \* how many records of the input the loop has taken
    feHood,                 \* what has been fetched for the record at hand
    initial_data,           \* all_neighborhood_data of generate_sustainability_data
    feLog,                  \* what was fetched for each entry written, in order
    feFile                  \* the --output-file: whether it was written, and its content

pipeVars == <<pipePc, pipeInput, pipeStage, stageStarted, stageExit, pipeExit>>
scrVars  == <<scrPc, scrArg, scrCity, areas, consulted, sourceRet, scrResult,
              scrExit, scrFile>>
geoVars  == <<google_api_key, use_google, geoPc, neighbourhoods, cityGoogle, task,
              finished, results>>
chatVars == <<model_ready, refined_data, lewc_data, definitions_data,
              conversation_history, current_neighborhood,
              last_mentioned_neighborhoods, last_discussed_topics, session_facts,
              total_tokens, lastTurn>>

callVars == <<resolveCall, mentionCall, inflight>>
rwVars   == <<cerebras_api_key, rwInput, all_neighborhood_data, rwPc, rwPos, rewrite,
              rwLog, rwFile>>
gsVars   == <<personalized_data, gsPc, finalized_report, gsFile, gsRun>>
feVars   == <<feInput, feEnv, fePc, fePos, feHood, initial_data, feLog, feFile>>

\* what the steps of one program leave alone: the state of the other programs
outsidePipeline == <<geoVars, chatVars, callVars, rwVars, gsVars, feVars>>
outsideGeo      == <<pipeVars, scrVars, chatVars, callVars, rwVars, gsVars, feVars>>
outsideChat     == <<pipeVars, scrVars, geoVars, callVars, rwVars, gsVars, feVars>>
outsideCalls    == <<pipeVars, scrVars, geoVars, chatVars, mentionCall, inflight, rwVars,
                     gsVars, feVars>>
outsideMention  == <<pipeVars, scrVars, geoVars, chatVars, resolveCall, inflight, rwVars,
                     gsVars, feVars>>
outsideApi      == <<pipeVars, scrVars, geoVars, rwVars, gsVars, feVars>>
outsideRewrite  == <<pipeVars, scrVars, geoVars, chatVars, callVars, gsVars, feVars>>
outsideFinalize == <<pipeVars, scrVars, geoVars, chatVars, callVars, rwVars, feVars>>
outsideFeature  == <<pipeVars, scrVars, geoVars, chatVars, callVars, rwVars, gsVars>>

(***************************************************************************)
(* Characters and Python's str methods                                     *)
(***************************************************************************)

\* The characters the model uses, in code point order.
Chars == "\n ',-79;ABCDEFGHIJKLMNOPQRSTUVWXYZabcdefghijklmnopqrstuvwxyz"

UpperChars == "ABCDEFGHIJKLMNOPQRSTUVWXYZ"
LowerChars == "abcdefghijklmnopqrstuvwxyz"

CharAt(s, i) == SubSeq(s, i, i)

\* the element of a set of one element: Value({e(v) : v \in {x}}) is e(x)
\* with x evaluated once
Value(S) == CHOOSE v \in S : TRUE

IndexIn(c, s) ==
    IF \E i \in 1..Len(s) : CharAt(s, i) = c
    THEN CHOOSE i \in 1..Len(s) : CharAt(s, i) = c
    ELSE 0

\* ord(c), up to an order-preserving renumbering
Ord(c) == IndexIn(c, Chars)

\* the letter of the other case, for every cased letter
LowerOf == [c \in {CharAt(UpperChars, i) : i \in 1..Len(UpperChars)} |->
               CharAt(LowerChars, IndexIn(c, UpperChars))]
UpperOf == [c \in {CharAt(LowerChars, i) : i \in 1..Len(LowerChars)} |->
               CharAt(UpperChars, IndexIn(c, LowerChars))]

IsUpper(c) == c \in DOMAIN LowerOf
IsLower(c) == c \in DOMAIN UpperOf
IsCased(c) == IsUpper(c) \/ IsLower(c)
IsSpace(c) == c = " " \/ c = "\n"

LowerChar(c) == IF IsUpper(c) THEN LowerOf[c] ELSE c
UpperChar(c) == IF IsLower(c) THEN UpperOf[c] ELSE c

RECURSIVE LowerAt(_, _)
\* s with the upper-case letters at the positions P replaced by their
\* lower-case letters
LowerAt(s, P) ==
    Value({IF Q = {} THEN v
           ELSE Value({LowerAt(SubSeq(v, 1, i - 1), Q \ {i})
                       \o LowerOf[CharAt(v, i)] \o SubSeq(v, i + 1, Len(v))
                       : i \in {CHOOSE j \in Q : \A k \in Q : k <= j}})
           : v \in {s}, Q \in {P}})

\* str.lower
PyLower(s) ==
    Value({LowerAt(v, {i \in 1..Len(v) : IsUpper(CharAt(v, i))}) : v \in {s}})

RECURSIVE LStrip(_)
LStrip(s) ==
    IF s # "" /\ IsSpace(Head(s)) THEN LStrip(Tail(s)) ELSE s

RECURSIVE RStrip(_)
RStrip(s) ==
    IF s # "" /\ IsSpace(CharAt(s, Len(s)))
    THEN RStrip(SubSeq(s, 1, Len(s) - 1))
    ELSE s

\* str.strip
PyStrip(s) == RStrip(LStrip(s))

RECURSIVE TitleFrom(_, _)
\* the loop of str.title: prevCased is previous_is_cased
TitleFrom(s, prevCased) ==
    IF s = "" THEN ""
    ELSE LET c == Head(s)
             out == IF IsLower(c) /\ ~prevCased THEN UpperChar(c)
                    ELSE IF IsUpper(c) /\ prevCased THEN LowerChar(c)
                    ELSE c
         IN  out \o TitleFrom(Tail(s), IsCased(c))

\* str.title
PyTitle(s) == TitleFrom(s, FALSE)

\* s.replace(" ", "")
RECURSIVE RemoveSpaces(_)
RemoveSpaces(s) ==
    IF s = "" THEN ""
    ELSE IF Head(s) = " " THEN RemoveSpaces(Tail(s))
    ELSE Head(s) \o RemoveSpaces(Tail(s))

\* s < t for Python strings (code point order, a proper prefix is smaller)
RECURSIVE StrLess(_, _)
StrLess(s, t) ==
    IF t = "" THEN FALSE
    ELSE IF s = "" THEN TRUE
    ELSE IF Head(s) # Head(t) THEN Ord(Head(s)) < Ord(Head(t))
    ELSE StrLess(Tail(s), Tail(t))

RECURSIVE SortedList(_)
\* sorted(list(S)) for a set S of strings
SortedList(S) ==
    IF S = {} THEN <<>>
    ELSE LET m == CHOOSE x \in S : \A y \in S \ {x} : StrLess(x, y)
         IN  <<m>> \o SortedList(S \ {m})

RECURSIVE SplitOn(_, _, _)
\* s.split(sep) for a one-character separator; cur is the piece being read
SplitOn(s, sep, cur) ==
    IF s = "" THEN <<cur>>
    ELSE IF Head(s) = sep THEN <<cur>> \o SplitOn(Tail(s), sep, "")
    ELSE SplitOn(Tail(s), sep, cur \o Head(s))

RECURSIVE SeqToSet(_)
SeqToSet(q) == IF q = <<>> THEN {} ELSE {Head(q)} \cup SeqToSet(Tail(q))

RECURSIVE ReSplitFrom(_, _)
\* re.split(r'[,\n;]+', text): a run of delimiters separates two pieces
ReSplitFrom(s, cur) ==
    IF s = "" THEN <<cur>>
    ELSE IF Head(s) \in {",", "\n", ";"}
         THEN IF Tail(s) # "" /\ Head(Tail(s)) \in {",", "\n", ";"}
              THEN ReSplitFrom(Tail(s), cur)
              ELSE <<cur>> \o ReSplitFrom(Tail(s), "")
    ELSE ReSplitFrom(Tail(s), cur \o Head(s))

\* needle in hay, for Python strings
Contains(hay, needle) ==
    \E h \in {hay}, n \in {needle} :
        \E i \in 1..(Len(h) - Len(n) + 1) : SubSeq(h, i, i + Len(n) - 1) = n

(***************************************************************************)
(* JSON values and the Python operations the scraper applies to them       *)
(***************************************************************************)

JNull    == [t |-> "null"]
JStr(s)  == [t |-> "str", s |-> s]
JNum(n)  == [t |-> "num", n |-> n]
JList(q) == [t |-> "list", items |-> q]
JDict(f) == [t |-> "dict", d |-> f]
NoKeys   == [k \in {} |-> JNull]

Ret(v)   == [exc |-> "none", val |-> v]
Raise(e) == [exc |-> e, val |-> JNull]

\* bool(x)
Truthy(x) ==
    CASE x.t = "null" -> FALSE
      [] x.t = "str"  -> x.s # ""
      [] x.t = "num"  -> x.n # 0
      [] x.t = "list" -> x.items # <<>>
      [] x.t = "dict" -> DOMAIN x.d # {}

\* x.get(k, default)
PyGet(x, k, default) ==
    IF x.t # "dict" THEN Raise("AttributeError")
    ELSE IF k \in DOMAIN x.d THEN Ret(x.d[k]) ELSE Ret(default)

\* x[k] for a string key k
PyItem(x, k) ==
    IF x.t # "dict" THEN Raise("TypeError")
    ELSE IF k \in DOMAIN x.d THEN Ret(x.d[k]) ELSE Raise("KeyError")

\* x[0]
PyFirst(x) ==
    CASE x.t = "list" -> IF x.items = <<>> THEN Raise("IndexError") ELSE Ret(x.items[1])
      [] x.t = "str"  -> IF x.s = "" THEN Raise("IndexError") ELSE Ret(JStr(CharAt(x.s, 1)))
      [] x.t = "dict" -> Raise("KeyError")
      [] OTHER        -> Raise("TypeError")

\* x + 3600000000 (only whether it raises matters)
PyAddInt(x) == IF x.t = "num" THEN Ret(x) ELSE Raise("TypeError")

\* k in x, for a string k
PyIn(k, x) ==
    CASE x.t = "dict" -> Ret(k \in DOMAIN x.d)
      [] x.t = "list" -> Ret(\E i \in 1..Len(x.items) : x.items[i] = JStr(k))
      [] x.t = "str"  -> Ret(Contains(x.s, k))
      [] OTHER        -> Raise("TypeError")

\* the values a for loop over x visits
PyIter(x) ==
    CASE x.t = "list" -> Ret(x.items)
      [] x.t = "str"  -> Ret([i \in 1..Len(x.s) |-> JStr(CharAt(x.s, i))])
      [] x.t = "dict" -> LET keys == SortedList(DOMAIN x.d)
                         IN  Ret([i \in 1..Len(keys) |-> JStr(keys[i])])
      [] OTHER        -> Raise("TypeError")

\* str(item) for the items the model uses (strings and numbers)
PyStr(x) ==
    CASE x.t = "str" -> x.s
      [] x.t = "num" -> IF x.n = 7 THEN "7" ELSE "9"
      [] OTHER       -> ""

(***************************************************************************)
(* neighbourhood_scraper.py                                                *)
(***************************************************************************)

\* An HTTP exchange: status "ok" carries a JSON body; "net_error" and
\* "http_error" raise requests.exceptions.RequestException from post() or
\* raise_for_status(); "bad_json" raises requests' JSONDecodeError from
\* response.json(), which is both a RequestException and a
\* json.JSONDecodeError.
HttpOk(data)  == [status |-> "ok", data |-> data]
HttpFail(why) == [status |-> why, data |-> JNull]

RECURSIVE OverpassNames(_)
\* [elem['tags']['name'] for elem in elems if 'name' in elem.get('tags', {})]
OverpassNames(elems) ==
    IF elems = <<>> THEN Ret(<<>>)
    ELSE LET elem == Head(elems)
             tags == PyGet(elem, "tags", JDict(NoKeys))
         IN  IF tags.exc # "none" THEN Raise(tags.exc)
             ELSE LET has == PyIn("name", tags.val)
                  IN  IF has.exc # "none" THEN Raise(has.exc)
                      ELSE LET rest == OverpassNames(Tail(elems))
                           IN  IF ~has.val THEN rest
                               ELSE LET nm == PyItem(tags.val, "name")
                                    IN  IF nm.exc # "none" THEN Raise(nm.exc)
                                        ELSE IF rest.exc # "none" THEN rest
                                        ELSE Ret(<<nm.val>> \o rest.val)

\* the try body of _query_overpass, lines 36-62: area is the exchange of the
\* area query, nb the exchange of the neighbourhood query
OverpassBody(area, nb) ==
    IF area.status # "ok" THEN Raise("RequestException")
    ELSE LET els == PyGet(area.data, "elements", JNull)
         IN  IF els.exc # "none" THEN Raise(els.exc)
             ELSE IF ~Truthy(els.val) THEN Ret(<<>>)
             ELSE LET e0 == PyFirst(els.val)
                      id == IF e0.exc # "none" THEN e0 ELSE PyItem(e0.val, "id")
                      area_id == IF id.exc # "none" THEN id ELSE PyAddInt(id.val)
                  IN  IF area_id.exc # "none" THEN Raise(area_id.exc)
                      ELSE IF nb.status # "ok" THEN Raise("RequestException")
                      ELSE LET els2 == PyGet(nb.data, "elements", JList(<<>>))
                               it   == IF els2.exc # "none" THEN els2
                                       ELSE PyIter(els2.val)
                           IN  IF it.exc # "none" THEN Raise(it.exc)
                               ELSE OverpassNames(it.val)

\* the exceptions the except clauses of _query_overpass catch (lines 64-69)
OverpassCaught == {"RequestException", "KeyError", "IndexError"}

\* _query_overpass: the list returned, or the exception that escapes
QueryOverpass(area, nb) ==
    LET r == OverpassBody(area, nb)
    IN  IF r.exc \in OverpassCaught THEN Ret(<<>>) ELSE r

RECURSIVE StripNonEmpty(_)
\* [name.strip() for name in candidates if name.strip()], as JSON strings
StripNonEmpty(cands) ==
    IF cands = <<>> THEN <<>>
    ELSE (IF PyStrip(Head(cands)) # "" THEN <<JStr(PyStrip(Head(cands)))>> ELSE <<>>)
         \o StripNonEmpty(Tail(cands))

\* _parse_neighborhoods_from_text
ParseNeighborhoodsFromText(text) == StripNonEmpty(ReSplitFrom(text, ""))

RECURSIVE StrTruthyItems(_)
\* [str(item) for item in value if item]
StrTruthyItems(items) ==
    IF items = <<>> THEN <<>>
    ELSE (IF Truthy(Head(items)) THEN <<JStr(PyStr(Head(items)))>> ELSE <<>>)
         \o StrTruthyItems(Tail(items))

\* the keys _get_from_toolhouse looks for, in the order of line 94
ToolhouseKeys ==
    <<"neighborhoods", "districts", "areas", "result", "data", "message", "content">>

RECURSIVE ToolhouseFromDict(_, _)
\* the loop of lines 94-100 over the keys that remain
ToolhouseFromDict(data, keys) ==
    IF keys = <<>> THEN <<>>
    ELSE LET key == Head(keys)
             got == IF key \notin DOMAIN data.d THEN <<>>
                    ELSE LET value == data.d[key]
                         IN  IF value.t = "list" THEN StrTruthyItems(value.items)
                             ELSE IF value.t = "str"
                                  THEN ParseNeighborhoodsFromText(value.s)
                             ELSE <<>>
         IN  got \o ToolhouseFromDict(data, Tail(keys))

\* lines 90-104 of _get_from_toolhouse
ToolhouseExtract(data) ==
    CASE data.t = "dict" -> ToolhouseFromDict(data, ToolhouseKeys)
      [] data.t = "list" -> StrTruthyItems(data.items)
      [] data.t = "str"  -> ParseNeighborhoodsFromText(data.s)
      [] OTHER           -> <<>>

\* _get_from_toolhouse: every failure of the exchange is caught (lines 113-118)
GetFromToolhouse(resp) ==
    IF resp.status # "ok" THEN Ret(<<>>) ELSE Ret(ToolhouseExtract(resp.data))

\* fallback_data of _get_from_fallback_list, lines 130-135
FallbackData ==
    [tempe   |-> <<"Maple-Ash", "Mitchell Park West", "Kiwanis Park", "Broadmor",
                   "Warner Ranch">>,
     phoenix |-> <<"Arcadia", "Biltmore", "Camelback East", "Central City",
                   "Deer Valley">>,
     boston  |-> <<"Back Bay", "Beacon Hill", "North End", "South End",
                   "Cambridge", "Charlestown">>,
     chicago |-> <<"Loop", "Lincoln Park", "Wicker Park", "River North",
                   "Gold Coast", "Lakeview">>]

\* _get_from_fallback_list: fallback_data.get(city.lower().replace(' ', ''), [])
GetFromFallbackList(city) ==
    LET key == RemoveSpaces(PyLower(city))
    IN  IF key \in DOMAIN FallbackData
        THEN [i \in 1..Len(FallbackData[key]) |-> JStr(FallbackData[key][i])]
        ELSE <<>>

\* the same set built without the strip() of the names
NormalizedNamesNoStrip(as) ==
    {PyTitle(as[i].s) :
        i \in {j \in 1..Len(as) : as[j].t = "str" /\ PyStrip(as[j].s) # ""}}

\* area.strip().title() for area in areas if isinstance(area, str) and area.strip()
NormalizedNames(as) ==
    {PyTitle(PyStrip(as[i].s)) :
        i \in {j \in 1..Len(as) : as[j].t = "str" /\ PyStrip(as[j].s) # ""}}

\* lines 158-164 of scrape
UniqueAreas(as) == SortedList(NormalizedNames(as))

Finalize(as) ==
    LET unique_areas == UniqueAreas(as)
    IN  [i \in 1..Len(unique_areas) |->
            [id |-> i, neighbourhood_name |-> unique_areas[i]]]

(***************************************************************************)
(* Inputs of the discovery stage                                           *)
(***************************************************************************)

\* "City, State" arguments: three well-formed ones (one of a city missing
\* from the fallback table), one without a comma and one with two commas
CityStateInputs == {"Tempe, AZ", "Bos ton,MA", "Mesa, AZ", "Tempe", "Tempe, AZ, USA"}

Elem(tags) == JDict("tags" :> tags)
Named(s)   == Elem(JDict("name" :> JStr(s)))
Elements(q) == HttpOk(JDict("elements" :> JList(q)))

\* answers of the Overpass area query
OverpassAreaReplies ==
    { HttpFail("net_error"),
      HttpFail("bad_json"),
      HttpOk(JDict(NoKeys)),
      Elements(<<JDict("id" :> JNum(7))>>),
      Elements(<<JDict(NoKeys)>>),
      Elements(<<JDict("id" :> JStr("7"))>>),
      HttpOk(JList(<<>>)) }

\* answers of the Overpass neighbourhood query
OverpassNbReplies ==
    { HttpFail("http_error"),
      Elements(<<>>),
      Elements(<<Named(" maple-ash"), Elem(JDict(NoKeys)), Named("Maple-Ash "),
                 Named("broadmor"), Named("BROADMOR park")>>),
      Elements(<<Named("o'neil park"), JDict(NoKeys), Named("Broad")>>),
      Elements(<<Elem(JDict("name" :> JNum(7))), Named(" \n")>>),
      Elements(<<Named("Loop"), Elem(JNull)>>) }

\* answers of the Toolhouse agent
ToolhouseReplies ==
    { HttpFail("net_error"),
      HttpFail("bad_json"),
      HttpOk(JNum(7)),
      HttpOk(JDict("status" :> JStr("north end, south end"))),
      HttpOk(JDict("neighborhoods" :> JList(<<JStr("back bay"), JStr(""), JNum(7),
                                              JStr("Back Bay")>>))),
      HttpOk(JDict(("message" :> JStr("loop, Lincoln park;\nloop ,;"))
                   @@ ("areas" :> JList(<<JStr("wicker park")>>)))),
      HttpOk(JList(<<JStr("arcadia"), JNull, JStr("Arcadia Lite")>>)),
      HttpOk(JStr(";;\n , ")),
      HttpOk(JStr("deer valley\nBiltmore")) }

(***************************************************************************)
(* neighbourhood_scraper.py: main and scrape, one step per source call     *)
(***************************************************************************)

Sources == <<"overpass", "toolhouse", "fallback">>

\* a scrape that asks the next source whatever the earlier one returned
NotAreasAlways(as) == TRUE

\* "if not areas:" of lines 146, 150 and 154
NotAreas(as) == as = <<>>

Outcome(r) ==
    IF r.exc # "none" THEN "raised"
    ELSE IF r.val = <<>> THEN "empty" ELSE "nonempty"

\* main, lines 175-181: the argument is split, then scrape is entered
ScraperBegin(arg) ==
    LET parts == SplitOn(arg, ",", "")
    IN  /\ scrArg' = arg
        /\ IF Len(parts) # 2
           THEN /\ scrPc' = "exited"
                /\ scrExit' = "1"
                /\ scrCity' = scrCity
           ELSE /\ scrPc' = "overpass"
                /\ scrExit' = scrExit
                /\ scrCity' = PyStrip(parts[1])
        /\ UNCHANGED <<areas, consulted, sourceRet, scrResult, scrFile>>

\* what a source call leaves behind: the list in areas, or an exception that
\* no frame catches, which ends the process with status 1
AfterSource(src, r, nextPc) ==
    /\ consulted' = Append(consulted, src)
    /\ sourceRet' = [sourceRet EXCEPT ![src] = Outcome(r)]
    /\ IF r.exc # "none"
       THEN /\ scrPc' = "exited"
            /\ scrExit' = "1"
            /\ areas' = areas
       ELSE /\ scrPc' = nextPc
            /\ scrExit' = scrExit
            /\ areas' = r.val
    /\ UNCHANGED <<scrArg, scrCity, scrResult, scrFile>>

\* line 144
ScrapeOverpass ==
    /\ scrPc = "overpass"
    /\ \E area \in OverpassAreaReplies, nb \in OverpassNbReplies :
          AfterSource("overpass", QueryOverpass(area, nb), "toolhouse")
    /\ UNCHANGED <<pipeVars, outsidePipeline>>

\* lines 146-148
ScrapeToolhouse ==
    /\ scrPc = "toolhouse"
    /\ IF NotAreas(areas)
       THEN \E resp \in ToolhouseReplies :
               AfterSource("toolhouse", GetFromToolhouse(resp), "fallback")
       ELSE /\ scrPc' = "fallback"
            /\ UNCHANGED <<scrArg, scrCity, areas, consulted, sourceRet, scrResult,
                           scrExit, scrFile>>
    /\ UNCHANGED <<pipeVars, outsidePipeline>>

\* lines 150-152
ScrapeFallback ==
    /\ scrPc = "fallback"
    /\ IF NotAreas(areas)
       THEN AfterSource("fallback", Ret(GetFromFallbackList(scrCity)), "finish")
       ELSE /\ scrPc' = "finish"
            /\ UNCHANGED <<scrArg, scrCity, areas, consulted, sourceRet, scrResult,
                           scrExit, scrFile>>
    /\ UNCHANGED <<pipeVars, outsidePipeline>>

\* lines 154-164: scrape returns
ScrapeReturn ==
    /\ scrPc = "finish"
    /\ scrResult' = IF NotAreas(areas) THEN <<>> ELSE Finalize(areas)
    /\ scrPc' = "returned"
    /\ UNCHANGED <<scrArg, scrCity, areas, consulted, sourceRet, scrExit, scrFile>>
    /\ UNCHANGED <<pipeVars, outsidePipeline>>

\* main, lines 184-191
ScraperExit ==
    /\ scrPc = "returned"
    /\ scrPc' = "exited"
    /\ IF scrResult = <<>>
       THEN scrExit' = "1" /\ scrFile' = scrFile
       ELSE scrExit' = "0" /\ scrFile' = [written |-> TRUE, content |-> scrResult]
    /\ UNCHANGED <<scrArg, scrCity, areas, consulted, sourceRet, scrResult>>
    /\ UNCHANGED <<pipeVars, outsidePipeline>>

(***************************************************************************)
(* run_pipeline.py                                                         *)
(***************************************************************************)

\* pipeline_steps, lines 75-92
PipelineSteps ==
    <<"neighbourhood_scraper.py", "enhanced_geocoder.py", "data_exp_2.py",
      "data_exp.py", "gs_converter.py">>

\* main, lines 42-51
PipelineBegin(input) ==
    /\ pipePc = "idle"
    /\ scrPc = "idle"
    /\ pipeInput' = input
    /\ IF Len(SplitOn(input, ",", "")) # 2
       THEN pipePc' = "exited" /\ pipeExit' = "1" /\ pipeStage' = pipeStage
       ELSE pipePc' = "run" /\ pipeExit' = pipeExit /\ pipeStage' = 1
    /\ UNCHANGED <<stageStarted, stageExit>>
    /\ UNCHANGED <<scrVars, outsidePipeline>>

\* a runner that ignores the result of run_command
StepSucceededAlways(status) == TRUE

\* the loop of lines 95-98 goes on exactly when run_command returned True
StepSucceeded(status) == status = "0"

\* what follows run_command for the step pipeStage, lines 95-108
AfterStep(status) ==
    /\ stageExit' = Append(stageExit, status)
    /\ IF ~StepSucceeded(status)
       THEN pipePc' = "exited" /\ pipeExit' = "1" /\ pipeStage' = pipeStage
       ELSE IF pipeStage = Len(PipelineSteps)
            THEN pipePc' = "exited" /\ pipeExit' = "0" /\ pipeStage' = pipeStage
            ELSE pipePc' = "run" /\ pipeExit' = pipeExit /\ pipeStage' = pipeStage + 1

\* run_command, lines 11-17: the step is started; FileNotFoundError (lines
\* 32-35) when the interpreter is missing, and then nothing was started
RunCommandStart ==
    /\ pipePc = "run"
    /\ stageStarted' = Append(stageStarted, pipeStage)
    /\ \E found \in BOOLEAN :
          IF ~found
          THEN /\ AfterStep("not_found")
               /\ UNCHANGED scrVars
          ELSE /\ pipePc' = "wait"
               /\ UNCHANGED <<pipeStage, stageExit, pipeExit>>
               /\ IF pipeStage = 1
                  THEN ScraperBegin(pipeInput)
                  ELSE UNCHANGED scrVars
    /\ UNCHANGED <<pipeInput, outsidePipeline>>

\* run_command, lines 23-31: the step has exited.  Step 1 is the scraper
\* process above; the other steps exit with status 0 or 1.
RunCommandEnd ==
    /\ pipePc = "wait"
    /\ IF pipeStage = 1
       THEN scrPc = "exited" /\ AfterStep(scrExit)
       ELSE \E status \in {"0", "1"} : AfterStep(status)
    /\ UNCHANGED <<pipeInput, stageStarted>>
    /\ UNCHANGED <<scrVars, outsidePipeline>>

\* python neighbourhood_scraper.py "City, State" --output-file f, run by hand
ScraperAlone(arg) ==
    /\ pipePc = "idle"
    /\ scrPc = "idle"
    /\ pipePc' = "unused"
    /\ ScraperBegin(arg)
    /\ UNCHANGED <<pipeInput, pipeStage, stageStarted, stageExit, pipeExit>>
    /\ UNCHANGED outsidePipeline

vars == <<pipeVars, scrVars, geoVars, chatVars, callVars, rwVars, gsVars, feVars>>

PipelineInit ==
    /\ pipePc = "idle"
    /\ pipeInput = ""
    /\ pipeStage = 0
    /\ stageStarted = <<>>
    /\ stageExit = <<>>
    /\ pipeExit = "none"
    /\ scrPc = "idle"
    /\ scrArg = ""
    /\ scrCity = ""
    /\ areas = <<>>
    /\ consulted = <<>>
    /\ sourceRet = [overpass |-> "none", toolhouse |-> "none", fallback |-> "none"]
    /\ scrResult = <<>>
    /\ scrExit = "none"
    /\ scrFile = [written |-> FALSE, content |-> <<>>]

PipelineNext ==
    \/ \E input \in CityStateInputs : PipelineBegin(input)
    \/ \E arg \in CityStateInputs : ScraperAlone(arg)
    \/ RunCommandStart
    \/ RunCommandEnd
    \/ ScrapeOverpass
    \/ ScrapeToolhouse
    \/ ScrapeFallback
    \/ ScrapeReturn
    \/ ScraperExit


(***************************************************************************)
(* Properties of the discovery stage and of the pipeline runner            *)
(***************************************************************************)

IndexOfSource(src) == CHOOSE k \in 1..Len(Sources) : Sources[k] = src

\* C1: the sources are consulted in the order Overpass, Toolhouse, fallback
\* table; a source is consulted only if every earlier source returned an
\* empty list, and after a source returned a non-empty list no later source
\* is consulted.
C1_SourceOrder ==
    /\ Len(consulted) <= Len(Sources)
    /\ \A k \in 1..Len(consulted) :
          /\ consulted[k] = Sources[k]
          /\ \A j \in 1..(k - 1) : sourceRet[Sources[j]] = "empty"
    /\ \A k \in 1..Len(Sources) :
          sourceRet[Sources[k]] = "nonempty" => Len(consulted) = k

\* scrape has returned the names of the second source, the first was empty
C1_Witness ==
    /\ scrPc = "returned"
    /\ consulted = <<"overpass", "toolhouse">>
    /\ sourceRet["overpass"] = "empty"
    /\ sourceRet["toolhouse"] = "nonempty"
    /\ scrResult # <<>>

AllSourcesEmpty == \A k \in 1..Len(Sources) : sourceRet[Sources[k]] = "empty"

\* C7: when every source came back empty scrape returns [], the scraper
\* exits with a non-zero status and step 2 is never started; in general step
\* k+1 is started only after step k exited with status 0, and no step is
\* started after the first step that failed.
C7_PipelineHalts ==
    /\ AllSourcesEmpty =>
          /\ scrPc \in {"returned", "exited"} => scrResult = <<>>
          /\ scrPc = "exited" => scrExit = "1" /\ ~scrFile.written
          /\ \A i \in 1..Len(stageStarted) : stageStarted[i] # 2
    /\ \A i \in 1..Len(stageStarted) :
          /\ stageStarted[i] = i
          /\ i > 1 => Len(stageExit) >= i - 1 /\ stageExit[i - 1] = "0"
    /\ \A i \in 1..Len(stageExit) :
          stageExit[i] # "0" =>
              /\ Len(stageStarted) = i
              /\ pipePc = "exited"
              /\ pipeExit = "1"

\* the runner has stopped after step 1 because every source was empty
C7_Witness ==
    /\ AllSourcesEmpty
    /\ pipePc = "exited"
    /\ pipeExit = "1"
    /\ stageStarted = <<1>>
    /\ stageExit = <<"1">>

IsTrimmed(s) == s = "" \/ (~IsSpace(CharAt(s, 1)) /\ ~IsSpace(CharAt(s, Len(s))))

\* a cased character is upper case exactly when no cased character precedes it
IsTitleCased(s) ==
    \A i \in 1..Len(s) :
        IsCased(CharAt(s, i)) =>
            (IsUpper(CharAt(s, i)) <=> (i = 1 \/ ~IsCased(CharAt(s, i - 1))))

\* the raw names scrape keeps: strings that are not blank
KeptRaw == {j \in 1..Len(areas) : areas[j].t = "str" /\ ~(\A i \in 1..Len(areas[j].s) : IsSpace(CharAt(areas[j].s, i)))}

\* s and t are the same text up to letter case and surrounding white space
SameName(raw, name) == PyLower(PyStrip(raw)) = PyLower(name)

\* C8: the list scrape returns has trimmed, title-cased names, pairwise
\* distinct and in ascending order, one for every raw name of the winning
\* source, and ids 1..n in that order.
C8_Normalized ==
    scrPc = "returned" =>
        /\ \A i \in 1..Len(scrResult) :
              /\ scrResult[i].id = i
              /\ IsTrimmed(scrResult[i].neighbourhood_name)
              /\ IsTitleCased(scrResult[i].neighbourhood_name)
              /\ scrResult[i].neighbourhood_name # ""
              /\ \E j \in KeptRaw : SameName(areas[j].s, scrResult[i].neighbourhood_name)
              /\ \A k \in 1..Len(scrResult) :
                    i < k => StrLess(scrResult[i].neighbourhood_name,
                                     scrResult[k].neighbourhood_name)
        /\ \A j \in KeptRaw :
              \E i \in 1..Len(scrResult) :
                  SameName(areas[j].s, scrResult[i].neighbourhood_name)

\* raw names that differ only by case or white space were merged, and a name
\* was re-cased
C8_Witness ==
    /\ scrPc = "returned"
    /\ Len(scrResult) >= 2
    /\ Cardinality(KeptRaw) > Len(scrResult)
    /\ \E j \in KeptRaw : \A i \in 1..Len(scrResult) :
          scrResult[i].neighbourhood_name # areas[j].s

\* C9: no name source raises: each call of _query_overpass and
\* _get_from_toolhouse returns a list, empty or not.
C9_NoSourceRaises ==
    \A k \in 1..Len(Sources) : sourceRet[Sources[k]] # "raised"

(***************************************************************************)
(* Coordinate_finder.py                                                    *)
(***************************************************************************)

\* the number of neighbourhoods handed to the concurrent stage
MaxNbhd == 2

\* address_formats, lines 126-131
address_formats ==
    <<"{name}, {city}, {state}, USA", "{name} neighborhood, {city}, {state}, USA",
      "{name}, {city}, {state}", "{name} {city} {state}">>

\* query_formats, lines 149-154
query_formats ==
    <<"{name}, {city}, {state}, USA", "{name}, {city}, {state}",
      "{name} neighborhood, {city}, {state}", "{name}, {city}">>

\* float(x) for the coordinate texts Nominatim sends; the value is in tenths
\* of a degree
FloatOf == ("0" :> 0) @@ ("0.0" :> 0) @@ ("33.4" :> 334) @@ ("-111.9" :> -1119)

PyFloat(x) ==
    CASE x.t = "num" -> Ret(x.n)
      [] x.t = "str" -> IF x.s \in DOMAIN FloatOf THEN Ret(FloatOf[x.s])
                        ELSE Raise("ValueError")
      [] OTHER       -> Raise("TypeError")

\* _fetch_google_json, lines 50-61: {} after a ClientError or a JSON error
FetchGoogleJson(reply) ==
    IF reply.status # "ok" THEN JDict(NoKeys) ELSE reply.data

\* _fetch_nominatim_json, lines 63-74: [] after a ClientError or a JSON error
FetchNominatimJson(reply) ==
    IF reply.status # "ok" THEN JList(<<>>) ELSE reply.data

\* data and data.get('status') == 'OK' and data.get('results'), lines 89, 141
GoogleHasResult(data) ==
    /\ Truthy(data)
    /\ PyGet(data, "status", JNull).val = JStr("OK")
    /\ Truthy(PyGet(data, "results", JNull).val)

\* data['results'][0]['geometry']['location'] and its lat and lng, lines
\* 90-92 and 142-144
GoogleLocation(data) ==
    LET res == PyFirst(data.d["results"])
        geo == IF res.exc # "none" THEN res ELSE PyItem(res.val, "geometry")
        loc == IF geo.exc # "none" THEN geo ELSE PyItem(geo.val, "location")
        lat == IF loc.exc # "none" THEN loc ELSE PyItem(loc.val, "lat")
        lng == IF loc.exc # "none" THEN loc ELSE PyItem(loc.val, "lng")
    IN  IF lat.exc # "none" THEN Raise(lat.exc)
        ELSE IF lng.exc # "none" THEN Raise(lng.exc)
        ELSE Ret(JList(<<lat.val, lng.val>>))

\* data and len(data) > 0, lines 107 and 166
NominatimHasResult(data) == data.t = "list" /\ Len(data.items) > 0

\* lat = float(result.get('lat', 0)); lon = float(result.get('lon', 0))
NominatimLatLon(data) ==
    LET result == data.items[1]
        rlat == PyGet(result, "lat", JNum(0))
        rlon == PyGet(result, "lon", JNum(0))
        lat == IF rlat.exc # "none" THEN rlat ELSE PyFloat(rlat.val)
        lon == IF rlon.exc # "none" THEN rlon ELSE PyFloat(rlon.val)
    IN  IF lat.exc # "none" THEN Raise(lat.exc)
        ELSE IF lon.exc # "none" THEN Raise(lon.exc)
        ELSE Ret(JList(<<JNum(lat.val), JNum(lon.val)>>))

\* if lat != 0 and lon != 0, line 170
NominatimAccepts(ll) == ll.items[1].n # 0 /\ ll.items[2].n # 0

\* "if not coords" / "if coords": coords is None or a 2-tuple, and a 2-tuple
\* is true whatever it holds
HasCoords(coords) == coords.t # "null"

\* the dictionary returned at lines 174-179
LookupRecord(nb, coords) ==
    [id |-> nb.id,
     neighbourhood_name |-> nb.neighbourhood_name,
     latitude  |-> IF HasCoords(coords) THEN coords.items[1] ELSE JNull,
     longitude |-> IF HasCoords(coords) THEN coords.items[2] ELSE JNull]

NoRecord == [id |-> 0, neighbourhood_name |-> "", latitude |-> JNull, longitude |-> JNull]

\* a gather that hands the records back in the order the lookups finished
GatherByCompletion(n, tk, order) == [i \in 1..n |-> tk[order[i]].ret]

\* gather, line 206: the i-th result is the return value of the i-th task
Gather(n, tk, order) == [i \in 1..n |-> tk[i].ret]

GoogleOk(rs) == HttpOk(JDict(("status" :> JStr("OK")) @@ ("results" :> JList(rs))))
GoogleAt(lat, lng) ==
    JDict("geometry" :> JDict("location" :> JDict(("lat" :> JNum(lat)) @@ ("lng" :> JNum(lng)))))
NominatimAt(lat, lon) == JDict(("lat" :> JStr(lat)) @@ ("lon" :> JStr(lon)))

\* answers of the Google geocoding API
GoogleReplies ==
    { HttpFail("http_error"),
      HttpOk(JDict("status" :> JStr("ZERO_RESULTS"))),
      GoogleOk(<<>>),
      GoogleOk(<<JDict(NoKeys)>>) }
    \cup { GoogleOk(<<GoogleAt(lat, lng)>>) : lat \in {0, 334}, lng \in {0, -1119} }

\* answers of Nominatim
NominatimReplies ==
    { HttpFail("net_error"),
      HttpOk(JList(<<>>)),
      HttpOk(JList(<<JDict(NoKeys)>>)),
      HttpOk(JList(<<NominatimAt("n/a", "0")>>)) }
    \cup { HttpOk(JList(<<NominatimAt(lat, lon)>>)) :
              lat \in {"0.0", "33.4"}, lon \in {"0", "-111.9"} }

\* the lists scrape can hand over: sorted names with ids 1..n
NeighbourhoodLists ==
    { Finalize(SubSeq(GetFromFallbackList("Tempe"), 1, n)) : n \in 0..MaxNbhd }

NewTask == [pc |-> "new", tmpl |-> 0, attempts |-> <<>>, ret |-> NoRecord]

GeoInit ==
    /\ google_api_key \in BOOLEAN
    /\ use_google = google_api_key
    /\ geoPc = "idle"
    /\ neighbourhoods = <<>>
    /\ cityGoogle = HttpFail("not_asked")
    /\ task = <<>>
    /\ finished = <<>>
    /\ results = <<>>

\* find_coordinates_for_city, lines 186-187: NeighbourhoodScraper defines
\* scrape and no scrape_neighbourhoods, so the call raises AttributeError
FindCoordinatesForCity ==
    /\ geoPc = "idle"
    /\ geoPc' = "raised"
    /\ UNCHANGED <<google_api_key, use_google, neighbourhoods, cityGoogle, task,
                   finished, results>>
    /\ UNCHANGED outsideGeo

\* lines 189-196 for a list of neighbourhoods: the stage as it runs once the
\* list is there
StartStage(nb) ==
    /\ geoPc = "idle"
    /\ neighbourhoods' = nb
    /\ IF nb = <<>>
       THEN geoPc' = "done"
       ELSE geoPc' = IF use_google THEN "city_google" ELSE "city_nominatim"
    /\ UNCHANGED <<google_api_key, use_google, cityGoogle, task, finished, results>>
    /\ UNCHANGED outsideGeo

\* lines 199-206: the coroutines are created and handed to gather
CreateTasks ==
    /\ task' = [i \in 1..Len(neighbourhoods) |-> NewTask]
    /\ geoPc' = "gather"

\* a verification that leaves the flag as it was
AfterGoogleFailureKept(flag) == flag

\* self.use_google = False, line 97
AfterGoogleFailure(flag) == FALSE

\* _geocode_city, lines 82-97
GeocodeCityGoogle ==
    /\ geoPc = "city_google"
    /\ \E reply \in GoogleReplies :
          LET data == FetchGoogleJson(reply)
          IN  /\ cityGoogle' = reply
              /\ IF GoogleHasResult(data)
                 THEN IF GoogleLocation(data).exc # "none"
                      THEN geoPc' = "raised" /\ UNCHANGED <<use_google, task>>
                      ELSE CreateTasks /\ UNCHANGED use_google
                 ELSE /\ use_google' = AfterGoogleFailure(use_google)
                      /\ geoPc' = "city_nominatim"
                      /\ UNCHANGED task
    /\ UNCHANGED <<google_api_key, neighbourhoods, finished, results>>
    /\ UNCHANGED outsideGeo

\* _geocode_city, lines 99-115, and lines 196-197
GeocodeCityNominatim ==
    /\ geoPc = "city_nominatim"
    /\ \E reply \in NominatimReplies :
          LET data == FetchNominatimJson(reply)
          IN  IF NominatimHasResult(data)
              THEN IF NominatimLatLon(data).exc # "none"
                   THEN geoPc' = "raised" /\ UNCHANGED task
                   ELSE CreateTasks
              ELSE geoPc' = "done" /\ UNCHANGED task
    /\ UNCHANGED <<google_api_key, use_google, neighbourhoods, cityGoogle, finished,
                   results>>
    /\ UNCHANGED outsideGeo

\* an entry of the log of a lookup: the request made, and whether its answer
\* set coords
Attempt(provider, k, accepted) ==
    [provider |-> provider, template |-> k, accepted |-> accepted]

\* a loop that stops one template early
MoreTemplatesButLast(k, formats) == k < Len(formats) - 1

\* "for address in address_formats" / "for query in query_formats": another
\* template follows the k-th
MoreTemplates(k, formats) == k < Len(formats)

\* the coroutine of entry i returns: line 174
TaskReturns(i, attempts, coords) ==
    /\ task' = [task EXCEPT ![i] =
                   [pc |-> "returned", tmpl |-> 0, attempts |-> attempts,
                    ret |-> LookupRecord(neighbourhoods[i], coords)]]
    /\ finished' = Append(finished, i)

\* the coroutine of entry i starts: lines 121-124 read self.use_google
TaskStart(i) ==
    /\ geoPc = "gather"
    /\ task[i].pc = "new"
    /\ task' = [task EXCEPT ![i].pc = IF use_google THEN "google" ELSE "nominatim",
                            ![i].tmpl = 1]
    /\ UNCHANGED <<google_api_key, use_google, geoPc, neighbourhoods, cityGoogle,
                   finished, results>>
    /\ UNCHANGED outsideGeo

\* one turn of the loop of lines 133-145, from the request to the next await
TaskGoogle(i) ==
    /\ geoPc = "gather"
    /\ task[i].pc = "google"
    /\ \E reply \in GoogleReplies :
          LET data == FetchGoogleJson(reply)
              attempts == Append(task[i].attempts,
                                 Attempt("google", task[i].tmpl,
                                         /\ GoogleHasResult(data)
                                         /\ GoogleLocation(data).exc = "none"))
          IN  IF GoogleHasResult(data)
              THEN IF GoogleLocation(data).exc # "none"
                   THEN /\ task' = [task EXCEPT ![i].pc = "raised",
                                                ![i].attempts = attempts]
                        /\ UNCHANGED finished
                   ELSE TaskReturns(i, attempts, GoogleLocation(data).val)
              ELSE /\ UNCHANGED finished
                   /\ IF MoreTemplates(task[i].tmpl, address_formats)
                      THEN task' = [task EXCEPT ![i].tmpl = @ + 1,
                                                ![i].attempts = attempts]
                      ELSE task' = [task EXCEPT ![i].pc = "nominatim",
                                                ![i].tmpl = 1,
                                                ![i].attempts = attempts]
    /\ UNCHANGED <<google_api_key, use_google, geoPc, neighbourhoods, cityGoogle,
                   results>>
    /\ UNCHANGED outsideGeo

\* one turn of the loop of lines 156-172, from the request to the next await
TaskNominatim(i) ==
    /\ geoPc = "gather"
    /\ task[i].pc = "nominatim"
    /\ \E reply \in NominatimReplies :
          LET data == FetchNominatimJson(reply)
              found == NominatimHasResult(data)
              ll == IF found THEN NominatimLatLon(data) ELSE Raise("none")
              attempts == Append(task[i].attempts,
                                 Attempt("nominatim", task[i].tmpl,
                                         found /\ ll.exc = "none" /\ NominatimAccepts(ll.val)))
          IN  IF found /\ ll.exc # "none"
              THEN /\ task' = [task EXCEPT ![i].pc = "raised",
                                           ![i].attempts = attempts]
                   /\ UNCHANGED finished
              ELSE IF found /\ NominatimAccepts(ll.val)
              THEN TaskReturns(i, attempts, ll.val)
              ELSE IF MoreTemplates(task[i].tmpl, query_formats)
              THEN /\ task' = [task EXCEPT ![i].tmpl = @ + 1,
                                           ![i].attempts = attempts]
                   /\ UNCHANGED finished
              ELSE TaskReturns(i, attempts, JNull)
    /\ UNCHANGED <<google_api_key, use_google, geoPc, neighbourhoods, cityGoogle,
                   results>>
    /\ UNCHANGED outsideGeo

\* line 206: every lookup has returned, gather hands back the list
GatherReturns ==
    /\ geoPc = "gather"
    /\ \A i \in 1..Len(task) : task[i].pc = "returned"
    /\ results' = Gather(Len(task), task, finished)
    /\ geoPc' = "done"
    /\ UNCHANGED <<google_api_key, use_google, neighbourhoods, cityGoogle, task,
                   finished>>
    /\ UNCHANGED outsideGeo

\* line 206: a lookup raised, gather passes the exception on
GatherRaises ==
    /\ geoPc = "gather"
    /\ \E i \in 1..Len(task) : task[i].pc = "raised"
    /\ geoPc' = "raised"
    /\ UNCHANGED <<google_api_key, use_google, neighbourhoods, cityGoogle, task,
                   finished, results>>
    /\ UNCHANGED outsideGeo

GeoNext ==
    \/ FindCoordinatesForCity
    \/ \E nb \in NeighbourhoodLists : StartStage(nb)
    \/ GeocodeCityGoogle
    \/ GeocodeCityNominatim
    \/ \E i \in 1..Len(task) : TaskStart(i)
    \/ \E i \in 1..Len(task) : TaskGoogle(i)
    \/ \E i \in 1..Len(task) : TaskNominatim(i)
    \/ GatherReturns
    \/ GatherRaises

(***************************************************************************)
(* backend/chatbot/chatbot.py: strings, data and the pure methods          *)
(***************************************************************************)

\* s.startswith(p)
StartsWith(s, p) ==
    \E v \in {s} : Len(p) <= Len(v) /\ SubSeq(v, 1, Len(p)) = p

RECURSIVE ReplaceN(_, _, _, _)
\* s.replace(old, new, count) for a non-empty old; count < 0 replaces all
ReplaceN(s, old, new, count) ==
    Value({IF c = 0 \/ ~Contains(v, o) THEN v
           ELSE Value({SubSeq(v, 1, i - 1) \o n
                       \o ReplaceN(SubSeq(v, i + Len(o), Len(v)), o, n, c - 1)
                       : i \in {CHOOSE j \in 1..(Len(v) - Len(o) + 1) :
                                   /\ SubSeq(v, j, j + Len(o) - 1) = o
                                   /\ \A k \in 1..(j - 1) :
                                          SubSeq(v, k, k + Len(o) - 1) # o}})
           : v \in {s}, o \in {old}, n \in {new}, c \in {count}})

\* s.replace(old, new)
PyReplace(s, old, new) == ReplaceN(s, old, new, -1)

\* len(s.split()): the number of places where a word begins
WordCount(s) ==
    Value({Cardinality({i \in 1..Len(v) :
                           /\ ~IsSpace(CharAt(v, i))
                           /\ i = 1 \/ IsSpace(CharAt(v, i - 1))}) : v \in {s}})

\* s.split(): the words between runs of whitespace
RECURSIVE PyWords(_, _)
PyWords(s, cur) ==
    IF s = "" THEN (IF cur = "" THEN <<>> ELSE <<cur>>)
    ELSE IF IsSpace(Head(s))
         THEN (IF cur = "" THEN <<>> ELSE <<cur>>) \o PyWords(Tail(s), "")
    ELSE PyWords(Tail(s), cur \o Head(s))

\* any(k in text for k in kws)
AnyIn(kws, text) ==
    \E t \in {text} : \E k \in 1..Len(kws) : Contains(t, kws[k])

RECURSIVE NatStr(_)
\* str(n) for a natural number n
NatStr(n) ==
    IF n < 10 THEN SubSeq("0123456789", n + 1, n + 1)
    ELSE NatStr(n \div 10) \o NatStr(n % 10)

\* f"{x}" for the values a score takes: a string or a whole number
FormatScore(x) ==
    CASE x.t = "str"  -> x.s
      [] x.t = "num"  -> NatStr(x.n)
      [] x.t = "null" -> "None"
      [] OTHER        -> ""

\* estimate_tokens: int((chars / 4 + words * 1.3) / 2), and 0 for a text that
\* is empty or None; text is a JSON value
EstimateTokens(text) ==
    IF ~Truthy(text) THEN 0
    ELSE (5 * Len(text.s) + 26 * WordCount(text.s)) \div 40

\* format_co2_savings(calculate_co2_savings(n)): the saving per token is
\* ((2.8 * 0.43) / 100 + 7000 / (100 * 43800) - (1.5 * 0.15) / 30) / 3600 kg,
\* that is 1.70505 mg; the amount is printed with two decimals in mg below
\* 0.001 kg and in g below 1 kg
FormatCo2Savings(n) ==
    LET units == 170505 * n                 \* in 0.00001 mg
        mg100 == (units + 500) \div 1000    \* in 0.01 mg, rounded
        g100  == (units + 500000) \div 1000000
        Two(h) == NatStr(h \div 100) \o "." \o NatStr((h % 100) \div 10) \o NatStr(h % 10)
    IN  IF units < 100000000 THEN Two(mg100) \o " mg" ELSE Two(g100) \o " g"

\* One entry of Tempe-AZ-data.json: the key and the value json.load gives
Entry(name, green, homeowners) ==
    [name |-> name,
     data |-> JDict([green_score |-> JNum(green), homeowners |-> JDict(homeowners),
                     coordinates |-> JDict([lat |-> JNum(33), lng |-> JNum(-112)])])]

\* A data file of six neighbourhoods, in the order of the file; one name is
\* contained in another, and two entries carry scores for the residents
DataFile ==
    << Entry("Maple-Ash", 6, [water_quality |-> JNum(7),
                              water_quality_exp |-> JStr("Treated city water"),
                              air_quality |-> JNum(5),
                              walkability |-> JNum(9)]),
       Entry("Mitchell Park West", 7, NoKeys),
       Entry("Kiwanis Park", 8, [water_quality |-> JNum(8),
                                 greenery_coverage |-> JNum(9)]),
       Entry("Broadmor", 5, NoKeys),
       Entry("Mitchell Park", 7, NoKeys),
       Entry("Warner Ranch", 9, NoKeys) >>

\* summary.json: the definitions of the terms
SummaryFile ==
    << [term |-> "green_score",
        description |-> "Overall sustainability rating from 1 to 10"] >>

\* Tempe-AZ-lewc-data.json: the environmental risk data, for one name
LewcFile ==
    << [name |-> "Maple-Ash", data |-> JDict([lewc_score |-> JNum(4)])] >>

\* k in d, for a dict kept as a sequence of entries in insertion order
HasKey(d, k) == \E i \in 1..Len(d) : d[i].name = k

\* d[k]
ValueOf(d, k) == d[CHOOSE i \in 1..Len(d) : d[i].name = k].data

\* main.py load_neighborhoods: the list the web endpoint hands to the chatbot
LoadNeighborhoods(raw_data) ==
    [i \in 1..Len(raw_data) |->
        JDict([name |-> PyGet(raw_data[i].data, "name", JStr(raw_data[i].name)).val,
               coordinates |-> PyGet(raw_data[i].data, "coordinates", JNull).val,
               green_score |-> PyGet(raw_data[i].data, "green_score", JNum(0)).val,
               score_variables |-> JDict(NoKeys)])]

RECURSIVE ConvertFrom(_, _)
\* _convert_web_context_to_data_format: a later entry of the same name
\* replaces the earlier one in place
ConvertFrom(nbs, conv) ==
    Value({
    IF neighborhoods = <<>> THEN converted
    ELSE LET nb    == Head(neighborhoods)
             name  == PyGet(nb, "name", JStr("")).val.s
             entry == [name |-> name,
                       data |-> JDict([coordinates |-> PyGet(nb, "coordinates", JNull).val,
                                       green_score |-> PyGet(nb, "green_score", JNull).val,
                                       homeowners |-> JDict(NoKeys)])]
             next  == IF HasKey(converted, name)
                      THEN [i \in 1..Len(converted) |->
                               IF converted[i].name = name THEN entry ELSE converted[i]]
                      ELSE Append(converted, entry)
         IN  ConvertFrom(Tail(neighborhoods), next)
    : neighborhoods \in {nbs}, converted \in {conv}})

ConvertWebContextToDataFormat(neighborhoods) == ConvertFrom(neighborhoods, <<>>)

\* the names of a dict kept as a sequence of entries, in insertion order
Keys(d) == [i \in 1..Len(d) |-> d[i].name]

RECURSIVE Matching(_, _)
\* [name for name in names if name.lower() in text]
Matching(names, text) ==
    Value({IF ns = <<>> THEN <<>>
           ELSE (IF Contains(t, PyLower(Head(ns))) THEN <<Head(ns)>> ELSE <<>>)
                \o Matching(Tail(ns), t) : ns \in {names}, t \in {text}})

\* mentioned_neighborhoods[:3]
FirstThree(q) == SubSeq(q, 1, IF Len(q) < 3 THEN Len(q) ELSE 3)

pronoun_patterns ==
    <<"it", "its", "that neighborhood", "there", "this place", "that place">>

\* _resolve_pronouns_and_references: current is the current neighbourhood,
\* null or a name
ResolvePronounsAndReferences(message, current) ==
    Value({
        IF ~(AnyIn(pronoun_patterns, message_lower) /\ Truthy(current)) THEN message
        ELSE LET nb == current.s
                 r1 == PyReplace(message, " it ", " " \o nb \o " ")
                 r2 == PyReplace(r1, " its ", " " \o nb \o "'s ")
                 r3 == PyReplace(r2, "that neighborhood", nb)
                 r4 == PyReplace(r3, " there", " in " \o nb)
                 r5 == PyReplace(r4, "this place", nb)
                 r6 == PyReplace(r5, "that place", nb)
                 r7 == IF StartsWith(message_lower, "it ")
                       THEN ReplaceN(r6, "It ", nb \o " ", 1) ELSE r6
             IN  IF StartsWith(message_lower, "its ")
                 THEN ReplaceN(r7, "Its ", nb \o "'s ", 1) ELSE r7
    : message_lower \in {PyLower(message)}})

\* the part of conversation_context the turn works on
Context(current, mentioned, topics, facts) ==
    [current_neighborhood |-> current,
     last_mentioned_neighborhoods |-> mentioned,
     last_discussed_topics |-> topics,
     session_facts |-> facts]

\* session_facts = {}: a key that is absent is null
NoFacts == [highest_score_neighborhood |-> JNull, lowest_score_neighborhood |-> JNull]

\* the topics of lines 257-270, each with the texts its keywords are looked
\* for in
Topics(user_lower, response_lower) ==
    LET either(k) == Contains(user_lower, k) \/ Contains(response_lower, k)
        user(k)   == Contains(user_lower, k)
        if(c, t)  == IF c THEN <<t>> ELSE <<>>
    IN  if(either("green score"), "green_score")
        \o if(either("air quality"), "air_quality")
        \o if(either("water quality"), "water_quality")
        \o if(either("walkability"), "walkability")
        \o if(user("lewc") \/ user("environmental risk"), "lewc_score")
        \o if(user("co2") \/ user("carbon") \/ user("emissions"), "co2_savings")

\* lines 272-273: the list is written only when this turn has topics; this
\* is the variant that writes it every turn
KeptTopicsEveryTurn(topics, before) == topics

\* lines 272-273: the list is written only when this turn has topics
KeptTopics(topics, before) == IF topics # <<>> THEN topics ELSE before

\* _update_conversation_context: bot_response is a JSON value, ctx the
\* context before; the context after, or the exception of .lower()
UpdateConversationContext(user_message, bot_response, ctx, refined) ==
    IF bot_response.t # "str" THEN [exc |-> "AttributeError", ctx |-> ctx]
    ELSE Value({Value({
         LET topics    == Topics(user_lower, response_lower)
             last      == JStr(mentioned[Len(mentioned)])
             scored(w) == /\ Contains(response_lower, w)
                          /\ Contains(response_lower, "score")
                          /\ mentioned # <<>>
             facts     == [highest_score_neighborhood |->
                               IF scored("highest") THEN last
                               ELSE ctx.session_facts.highest_score_neighborhood,
                           lowest_score_neighborhood |->
                               IF scored("lowest") THEN last
                               ELSE ctx.session_facts.lowest_score_neighborhood]
         IN  [exc |-> "none",
              ctx |-> Context(
                  IF mentioned # <<>> THEN JStr(mentioned[1]) ELSE ctx.current_neighborhood,
                  IF mentioned # <<>> THEN FirstThree(mentioned)
                  ELSE ctx.last_mentioned_neighborhoods,
                  KeptTopics(topics, ctx.last_discussed_topics),
                  facts)]
         : mentioned \in {IF refined # <<>>
                          THEN Matching(Keys(refined), response_lower) ELSE <<>>}})
         : user_lower \in {PyLower(user_message)},
           response_lower \in {PyLower(bot_response.s)}})

\* the outcome of a responder: the text, the current neighbourhood it leaves
\* and the exception it raised
Answer(text, current) == [exc |-> "none", text |-> JStr(text), current |-> current]
Failure(e, current)   == [exc |-> e, text |-> JNull, current |-> current]

\* _handle_definition_query
HandleDefinitionQuery(message_lower) ==
    LET hit(i) == LET term  == PyLower(definitions_data[i].term)
                      words == PyWords(PyReplace(PyReplace(term, "_", " "), "-", " "), "")
                  IN  \E w \in 1..Len(words) :
                          Len(words[w]) > 3 /\ Contains(message_lower, words[w])
    IN  IF \E i \in 1..Len(definitions_data) : hit(i)
        THEN LET i == CHOOSE j \in 1..Len(definitions_data) :
                          hit(j) /\ \A k \in 1..(j - 1) : ~hit(k)
             IN  "**" \o PyTitle(PyReplace(definitions_data[i].term, "_", " ")) \o "**: "
                 \o definitions_data[i].description
        ELSE "I can help explain Urban Vitals terms like green_score, air_quality, walkability, lewc_score, and many others. What specific term would you like me to explain?"

RECURSIVE Extreme(_, _, _, _)
\* the loops of _find_highest_green_score and _find_lowest_green_score: the
\* best entry so far, or the TypeError of comparing None with a number
Extreme(items, highest, score, name) ==
    Value({
    IF its = <<>> THEN [exc |-> "none", score |-> sc, name |-> nm]
    ELSE LET s == PyGet(Head(its).data, "green_score",
                        JNum(IF highest THEN 0 ELSE 11)).val
         IN  IF s.t # "num" THEN [exc |-> "TypeError", score |-> sc, name |-> nm]
             ELSE IF (IF highest THEN s.n > sc ELSE s.n < sc /\ s.n > 0)
                  THEN Extreme(Tail(its), highest, s.n, JStr(Head(its).name))
             ELSE Extreme(Tail(its), highest, sc, nm)
    : its \in {items}, sc \in {score}, nm \in {name}})

\* _find_highest_green_score (highest) and _find_lowest_green_score
FindGreenScore(neighborhoods_data, highest, current) ==
    IF neighborhoods_data = <<>>
    THEN Answer("I don't have neighborhood data available right now.", current)
    ELSE LET e == Extreme(neighborhoods_data, highest, IF highest THEN 0 ELSE 11, JNull)
         IN  IF e.exc # "none" THEN Failure(e.exc, current)
             ELSE IF Truthy(e.name)
                  THEN Answer(e.name.s \o " has the "
                              \o (IF highest THEN "highest" ELSE "lowest")
                              \o " Green Score at " \o NatStr(e.score) \o "/10.", e.name)
             ELSE Answer("I couldn't find green score data for the neighborhoods.", current)

FindHighestGreenScore(neighborhoods_data, current) ==
    FindGreenScore(neighborhoods_data, TRUE, current)

FindLowestGreenScore(neighborhoods_data, current) ==
    FindGreenScore(neighborhoods_data, FALSE, current)

\* the metrics of lines 598-603, in the order of the dict
metrics ==
    << <<"walkability", "walkability">>, <<"safety", "public_safety">>,
       <<"cleanliness", "cleanliness">>, <<"green", "greenery_coverage">> >>

\* d.get("homeowners", {}).get(key, default) as it is printed
Homeowners(neighborhood_data, key, default) ==
    PyGet(PyGet(neighborhood_data, "homeowners", JDict(NoKeys)).val, key, JStr(default)).val

\* lines 577-609: the answer about the current neighbourhood, or "" when no
\* keyword of the block is in the message
CurrentNeighborhoodAnswer(message_lower, nb, neighborhood_data) ==
    IF Contains(message_lower, "water quality")
    THEN LET exp == FormatScore(Homeowners(neighborhood_data, "water_quality_exp", ""))
         IN  nb \o " has a water quality score of "
             \o FormatScore(Homeowners(neighborhood_data, "water_quality", "N/A")) \o "/10."
             \o (IF exp # "" THEN " " \o exp ELSE "")
    ELSE IF Contains(message_lower, "air quality")
    THEN LET exp == FormatScore(Homeowners(neighborhood_data, "aqi_reason", ""))
         IN  nb \o " has an air quality score of "
             \o FormatScore(Homeowners(neighborhood_data, "air_quality", "N/A")) \o "/10."
             \o (IF exp # "" THEN " " \o exp ELSE "")
    ELSE IF \E m \in 1..Len(metrics) : Contains(message_lower, metrics[m][1])
    THEN LET m == CHOOSE j \in 1..Len(metrics) :
                      /\ Contains(message_lower, metrics[j][1])
                      /\ \A k \in 1..(j - 1) : ~Contains(message_lower, metrics[k][1])
         IN  nb \o " has a " \o metrics[m][1] \o " score of "
             \o FormatScore(Homeowners(neighborhood_data, metrics[m][2], "N/A")) \o "/10."
    ELSE ""

\* _get_enhanced_fallback_response; the selected neighbourhood it is handed
\* is not read. tokens is co2_stats.total_tokens, which the saving is
\* computed from
GetEnhancedFallbackResponse(message, neighborhoods_data, current, refined, tokens) ==
    Value({
    LET about == IF Truthy(current) /\ current.t = "str" /\ HasKey(refined, current.s)
                 THEN CurrentNeighborhoodAnswer(message_lower, current.s,
                                                ValueOf(refined, current.s))
                 ELSE ""
    IN  IF AnyIn(<<"co2", "carbon", "emissions", "footprint", "savings",
                   "environmental impact">>, message_lower)
        THEN Answer("Great question about environmental impact! This conversation has already saved "
                    \o FormatCo2Savings(tokens)
                    \o " of CO2 emissions by using Tandemn's eco-friendly AI infrastructure instead of traditional commercial providers. We achieve this through refurbished hardware (avoiding embodied carbon from manufacturing) and green energy sources. Every token we process together helps reduce the carbon footprint of AI!",
                    current)
        ELSE IF AnyIn(<<"hello", "hi", "hey", "greetings">>, message_lower)
        THEN IF Truthy(current)
             THEN Answer("Hello! We were just discussing " \o FormatScore(current)
                         \o ". What else would you like to know?", current)
             ELSE Answer("Hello! I'm your Urban Vitals assistant powered by eco-friendly AI. What would you like to know about Tempe's neighborhoods?",
                         current)
        ELSE IF about # "" THEN Answer(about, current)
        ELSE IF AnyIn(<<"what is", "what does", "define", "meaning of", "explain">>,
                      message_lower)
        THEN Answer(HandleDefinitionQuery(message_lower), current)
        ELSE IF AnyIn(<<"highest green score", "best green score", "top green score">>,
                      message_lower)
        THEN FindHighestGreenScore(neighborhoods_data, current)
        ELSE IF AnyIn(<<"lowest green score", "worst green score", "bottom green score">>,
                      message_lower)
        THEN FindLowestGreenScore(neighborhoods_data, current)
        ELSE Answer("That's a great question, but I don't have that information right now. Feel free to ask about neighborhoods, green scores, or our eco-friendly AI system!",
                    current)
    : message_lower \in {PyStrip(PyLower(message))}})

\* _get_tandemn_response: reply is what the API call came to, the content of
\* the first choice or a failure; every failure goes to the fallback
\* responder with no data
GetTandemnResponse(message, reply, current, refined, tokens) ==
    IF reply.status = "content"
    THEN [exc |-> "none", text |-> reply.content, current |-> current]
    ELSE GetEnhancedFallbackResponse(message, <<>>, current, refined, tokens)

(***************************************************************************)
(* backend/chatbot/chatbot.py: the relevant-context window                 *)
(***************************************************************************)

RECURSIVE LongestFirst(_)
\* sorted(names, key=len, reverse=True): names of one length keep their order
LongestFirst(neighborhood_names) ==
    Value({
    IF names = <<>> THEN <<>>
    ELSE Value({<<names[i]>>
                \o LongestFirst(SubSeq(names, 1, i - 1) \o SubSeq(names, i + 1, Len(names)))
                : i \in {CHOOSE j \in 1..Len(names) :
                            /\ \A k \in 1..Len(names) : Len(names[k]) <= Len(names[j])
                            /\ \A k \in 1..(j - 1) : Len(names[k]) < Len(names[j])}})
    : names \in {neighborhood_names}})

RECURSIVE MentionedFrom(_, _)
\* the loop of _find_mentioned_neighborhoods: a name that is found is taken
\* out of the query before the next name is looked for
MentionedFrom(names, lower_query) ==
    Value({
    IF ns = <<>> THEN <<>>
    ELSE IF Contains(q, PyLower(Head(ns)))
         THEN <<Head(ns)>> \o MentionedFrom(Tail(ns), PyReplace(q, PyLower(Head(ns)), ""))
    ELSE MentionedFrom(Tail(ns), q)
    : ns \in {names}, q \in {lower_query}})

\* the scan in the order of the dict, for comparison
FindMentionedInDictOrder(query, neighborhood_names) ==
    MentionedFrom(neighborhood_names, PyLower(query))

\* _find_mentioned_neighborhoods
FindMentionedNeighborhoods(query, neighborhood_names) ==
    MentionedFrom(LongestFirst(neighborhood_names), PyLower(query))

\* the window _get_relevant_context returns: None, or the JSON text of a
\* dict with these keys, in their order; aqi, weather and risk tell whether
\* the single entry carries live_aqi_data, live_weather_data and
\* environmental_risk_data
NoWindow == [given |-> FALSE, names |-> <<>>, aqi |-> FALSE, weather |-> FALSE,
             risk |-> FALSE]
Window(names, aqi, weather, risk) ==
    IF names = <<>> THEN NoWindow
    ELSE [given |-> TRUE, names |-> names, aqi |-> aqi, weather |-> weather,
          risk |-> risk]

\* the keywords of line 688 without "best"
comparison_keywords_but_best ==
    <<"highest", "lowest", "worst", "top", "bottom", "compare">>

comparison_keywords ==
    <<"highest", "lowest", "best", "worst", "top", "bottom", "compare">>

\* what a live lookup comes to: an answer, a failed request (the lookup
\* returns None), or an answer whose 'current' is not an object (the lookup
\* raises)
LiveOutcomes == {"ok", "request_error", "bad_body"}

\* _get_live_aqi and _get_live_weather: whether the lookup returns data, or
\* the exception it raises
LiveLookup(lat, lng, outcome) ==
    IF lat = JNull \/ lng = JNull THEN Ret(FALSE)
    ELSE IF outcome = "bad_body" THEN Raise("AttributeError")
    ELSE Ret(outcome = "ok")

\* the try body of _get_relevant_context (lines 685-735); current is the
\* current neighbourhood when it is called
RelevantContextBody(query, neighborhoods_data, lewc, selected_neighborhood, current, live) ==
    Value({
        IF AnyIn(comparison_keywords, lower)
        THEN Ret(Window(Keys(neighborhoods_data), FALSE, FALSE, FALSE))
        ELSE Value({
             LET s1 == IF Truthy(current) THEN current ELSE JNull
                 nm == IF Truthy(selected_neighborhood)
                       THEN PyGet(selected_neighborhood, "name", JNull) ELSE Ret(JNull)
                 s2 == IF Truthy(nm.val) THEN nm.val ELSE s1
                 subject == IF ~Truthy(s2) /\ mentioned # <<>>
                            THEN JStr(mentioned[1]) ELSE s2
             IN  IF nm.exc # "none" THEN Raise(nm.exc)
                 ELSE IF Truthy(subject) /\ subject.t = "str"
                         /\ HasKey(neighborhoods_data, subject.s)
                 THEN LET coords == PyGet(ValueOf(neighborhoods_data, subject.s),
                                          "coordinates", JDict(NoKeys)).val
                          lat == PyGet(coords, "lat", JNull)
                          lng == PyGet(coords, "lng", JNull)
                          wantAqi == AnyIn(<<"aqi", "air quality", "pollution">>, lower)
                          wantWeather == AnyIn(<<"weather", "temperature", "hot", "cold",
                                                 "wind", "humidity">>, lower)
                          aqi == IF wantAqi THEN LiveLookup(lat.val, lng.val, live)
                                 ELSE Ret(FALSE)
                          weather == IF wantWeather THEN LiveLookup(lat.val, lng.val, live)
                                     ELSE Ret(FALSE)
                      IN  IF lat.exc # "none" THEN Raise(lat.exc)
                          ELSE IF aqi.exc # "none" THEN Raise(aqi.exc)
                          ELSE IF weather.exc # "none" THEN Raise(weather.exc)
                          ELSE Ret(Window(<<subject.s>>, aqi.val, weather.val,
                                          HasKey(lewc, subject.s)))
                 ELSE Ret(Window(SubSeq(Keys(neighborhoods_data), 1,
                                        IF Len(neighborhoods_data) < 5
                                        THEN Len(neighborhoods_data) ELSE 5),
                                 FALSE, FALSE, FALSE))
             \* the query is searched only when neither the selection nor the
             \* session gives a subject (line 703)
             : mentioned \in {
                 IF Truthy(current)
                    \/ (Truthy(selected_neighborhood)
                        /\ Truthy(PyGet(selected_neighborhood, "name", JNull).val))
                 THEN <<>>
                 ELSE FindMentionedNeighborhoods(query, Keys(neighborhoods_data))}})
    : lower \in {PyLower(query)}})

\* _get_relevant_context: every exception gives None
GetRelevantContext(query, neighborhoods_data, lewc, selected_neighborhood, current, live) ==
    LET r == RelevantContextBody(query, neighborhoods_data, lewc,
                                 selected_neighborhood, current, live)
    IN  IF r.exc # "none" THEN NoWindow ELSE r.val

(***************************************************************************)
(* backend/chatbot/chatbot.py: the session and its operations              *)
(***************************************************************************)

\* the longest conversation the model follows
MaxTurns == 2

\* the messages of the user, as the request carries them: an empty text, one
\* that asks for a comparison and names a topic, one that refers to the
\* subject, names a neighbourhood and no topic, and a number instead of a text
Messages ==
    {JStr(""), JStr("name the best green score"), JStr("Is it near Broadmor"), JNum(7)}

\* the neighbourhood the page has selected, as the request carries it: none,
\* one of the data file, one the data file does not know, and a bare name
\* instead of an object
Selections ==
    {JNull, JDict([name |-> JStr("Kiwanis Park")]),
     JDict([name |-> JStr("Downtown Tempe")]), JStr("Broadmor")}

NoContext == [given |-> FALSE, neighborhoods |-> <<>>, selected_neighborhood |-> JNull]

\* the context argument: None, or what main.py chat_message builds
Contexts ==
    {NoContext}
    \cup {[given |-> TRUE, neighborhoods |-> LoadNeighborhoods(DataFile),
           selected_neighborhood |-> s] : s \in Selections \ {JNull}}

Content(c) == [status |-> "content", content |-> c]
NoReply    == [status |-> "failed", content |-> JNull]

\* what the call to the Tandemn API comes to: a text that names one
\* neighbourhood, two in another order and case than the data file, four or
\* none; a null content; a failure
TandemnReplies ==
    {Content(JStr("Broadmor is a quiet area")),
     Content(JStr("warner ranch and Maple-Ash are close")),
     Content(JStr("Kiwanis Park, Broadmor, Mitchell Park West and Maple-Ash")),
     Content(JStr("I am not sure")),
     Content(JNull),
     NoReply}

\* what is kept of the last call: how it ended, the string it returned, the
\* selected neighbourhood it was handed, the window it built and the current
\* neighbourhood when the response was scanned
NoTurn == [outcome |-> "none", returned |-> "", subject_before_update |-> JNull,
           selected |-> JNull, window |-> NoWindow]

\* __init__ (lines 10-40): an empty session; _initialize_tandemn leaves the
\* model configured or not, _load_data reads the data file
ChatInit ==
    /\ model_ready \in BOOLEAN
    /\ refined_data = DataFile
    /\ lewc_data = LewcFile
    /\ definitions_data = SummaryFile
    /\ conversation_history = <<>>
    /\ current_neighborhood = JNull
    /\ last_mentioned_neighborhoods = <<>>
    /\ last_discussed_topics = <<>>
    /\ session_facts = NoFacts
    /\ total_tokens = 0
    /\ lastTurn = NoTurn

\* what get_response leaves when it returns early or an exception ends it:
\* the entry of the history without a response
Unanswered(entry, current, tokens, outcome, text, selected, window) ==
    /\ conversation_history' = Append(conversation_history, entry)
    /\ current_neighborhood' = current
    /\ total_tokens' = tokens
    /\ lastTurn' = [outcome |-> outcome, returned |-> text,
                    subject_before_update |-> JNull,
                    selected |-> selected, window |-> window]
    /\ UNCHANGED <<last_mentioned_neighborhoods, last_discussed_topics, session_facts>>

\* the query asks for a live lookup
WantsLive(query) ==
    AnyIn(<<"aqi", "air quality", "pollution", "weather", "temperature", "hot", "cold",
            "wind", "humidity">>, PyLower(query))

\* the apology of get_response
sorry == "I'm sorry, I encountered an error processing your request. Please try again."

\* get_response (lines 398-465) with a message that is not a string:
\* estimate_tokens (a message that is true) or _resolve_pronouns_and_references
\* raises AttributeError before the message is put into the history
NotText ==
    /\ lastTurn' = [outcome |-> "error", returned |-> sorry,
                    subject_before_update |-> JNull, selected |-> JNull,
                    window |-> NoWindow]
    /\ UNCHANGED <<conversation_history, current_neighborhood, total_tokens,
                   last_mentioned_neighborhoods, last_discussed_topics, session_facts>>

\* get_response (lines 398-465) with a message that is a string
Text(message, context, reply, live) ==
    /\ \E resolved_message \in
              {ResolvePronounsAndReferences(message, current_neighborhood)},
          user_tokens \in {EstimateTokens(JStr(message))},
          neighborhoods_data \in
              {IF context.given /\ context.neighborhoods # <<>>
               THEN ConvertWebContextToDataFormat(context.neighborhoods)
               ELSE refined_data} :
       /\ live = "ok" \/ WantsLive(resolved_message)
       /\ LET entry == [user |-> message, resolved_user |-> resolved_message,
                        response |-> JNull, user_tokens |-> user_tokens,
                        bot_tokens |-> JNull]
              web == context.given /\ context.neighborhoods # <<>>
              selected_neighborhood ==
                  IF web THEN context.selected_neighborhood ELSE JNull
              name == IF Truthy(selected_neighborhood)
                      THEN PyGet(selected_neighborhood, "name", JNull)
                      ELSE Ret(JNull)
              current == IF Truthy(name.val) THEN name.val ELSE current_neighborhood
          IN  IF PyStrip(message) = ""
              THEN Unanswered(entry, current_neighborhood, total_tokens, "empty",
                              "I'm here to help! Ask me about neighborhood data, green scores, or sustainability metrics.",
                              JNull, NoWindow)
              ELSE IF name.exc # "none"
              THEN Unanswered(entry, current_neighborhood, total_tokens, "error", sorry,
                              selected_neighborhood, NoWindow)
              ELSE \E relevant_context \in {
                       GetRelevantContext(resolved_message, neighborhoods_data, lewc_data,
                                          selected_neighborhood, current, live)},
                      response \in {
                       IF model_ready
                       THEN GetTandemnResponse(resolved_message, reply, current,
                                               refined_data, total_tokens)
                       ELSE GetEnhancedFallbackResponse(resolved_message, neighborhoods_data,
                                                        current, refined_data, total_tokens)} :
                   IF response.exc # "none"
                   THEN Unanswered(entry, response.current, total_tokens, "error", sorry,
                                   selected_neighborhood, relevant_context)
                   ELSE \E bot_tokens \in {EstimateTokens(response.text)},
                           updated \in {UpdateConversationContext(
                                           resolved_message, response.text,
                                           Context(response.current,
                                                   last_mentioned_neighborhoods,
                                                   last_discussed_topics, session_facts),
                                           refined_data)} :
                        IF updated.exc # "none"
                        THEN Unanswered(entry, response.current,
                                        total_tokens + user_tokens + bot_tokens, "error", sorry,
                                        selected_neighborhood, relevant_context)
                        ELSE /\ conversation_history' =
                                    Append(conversation_history,
                                           [entry EXCEPT !.response = response.text,
                                                         !.bot_tokens = JNum(bot_tokens)])
                             /\ current_neighborhood' = updated.ctx.current_neighborhood
                             /\ last_mentioned_neighborhoods' =
                                    updated.ctx.last_mentioned_neighborhoods
                             /\ last_discussed_topics' = updated.ctx.last_discussed_topics
                             /\ session_facts' = updated.ctx.session_facts
                             /\ total_tokens' = total_tokens + user_tokens + bot_tokens
                             /\ lastTurn' = [outcome |-> "answered",
                                             returned |-> response.text.s,
                                             subject_before_update |-> response.current,
                                             selected |-> selected_neighborhood,
                                             window |-> relevant_context]

\* get_response (lines 398-465), one call from entry to return. The context
\* window of _get_relevant_context and the prompt go into the request only:
\* reply stands for every answer the API can give to them, live for what the
\* live lookups come to. An argument the call does not get to read takes one
\* value only, and a message that is not a string is tried on a session
\* without history only.
GetResponse(message, context, reply, live) ==
    /\ Len(conversation_history) < MaxTurns
    /\ model_ready \/ reply = NoReply
    /\ message.t # "str" =>
           context = NoContext /\ reply = NoReply /\ live = "ok"
           /\ conversation_history = <<>>
    /\ message.t = "str" /\ PyStrip(message.s) = "" =>
           context = NoContext /\ reply = NoReply
    /\ context.selected_neighborhood.t = "str" => reply = NoReply
    /\ IF message.t = "str" THEN Text(message.s, context, reply, live) ELSE NotText
    /\ UNCHANGED <<model_ready, refined_data, lewc_data, definitions_data>>
    /\ UNCHANGED outsideChat

\* reset, were it to leave the current neighbourhood in place
ResetKeepsSubject ==
    /\ conversation_history' = <<>>
    /\ last_mentioned_neighborhoods' = <<>>
    /\ last_discussed_topics' = <<>>
    /\ session_facts' = NoFacts
    /\ total_tokens' = 0
    /\ lastTurn' = [NoTurn EXCEPT !.outcome = "reset"]
    /\ UNCHANGED <<model_ready, refined_data, lewc_data, definitions_data,
                   current_neighborhood>>
    /\ UNCHANGED outsideChat

\* reset (lines 834-850)
Reset ==
    /\ conversation_history' = <<>>
    /\ current_neighborhood' = JNull
    /\ last_mentioned_neighborhoods' = <<>>
    /\ last_discussed_topics' = <<>>
    /\ session_facts' = NoFacts
    /\ total_tokens' = 0
    /\ lastTurn' = [NoTurn EXCEPT !.outcome = "reset"]
    /\ UNCHANGED <<model_ready, refined_data, lewc_data, definitions_data>>
    /\ UNCHANGED outsideChat

ChatNext ==
    \/ \E message \in Messages, context \in Contexts, reply \in TandemnReplies,
          live \in LiveOutcomes :
           GetResponse(message, context, reply, live)
    \/ Reset

(***************************************************************************)
(* backend/chatbot/chatbot.py: _resolve_pronouns_and_references, one call  *)
(***************************************************************************)

\* the messages the function is called with: the reference patterns between
\* words, as the first word in both cases, as the last word, and none
ResolveMessages ==
    {"how is its water quality", "what makes it special",
     "It is a nice area", "it is a nice area",
     "Its parks are green", "tell me about it",
     "is that neighborhood safe", "Is this place quiet", "what about that place",
     "is it hot there", "name the best green score", ""}

\* the current neighbourhood the function finds: none, or a name
ResolveSubjects ==
    {JNull} \cup {JStr(DataFile[i].name) : i \in 1..Len(DataFile)}

NoCall == [message |-> "", current |-> JNull, returned |-> JNull]

\* the arguments of the call, before it is made
ResolveInit ==
    \E message \in ResolveMessages, current \in ResolveSubjects :
        resolveCall = [message |-> message, current |-> current, returned |-> JNull]

\* the call, from entry to return
Resolve ==
    /\ resolveCall.returned = JNull
    /\ resolveCall' =
           [resolveCall EXCEPT !.returned =
               JStr(ResolvePronounsAndReferences(resolveCall.message,
                                                 resolveCall.current))]
    /\ UNCHANGED outsideCalls

ResolveNext == Resolve

(***************************************************************************)
(* backend/chatbot/chatbot.py: _find_mentioned_neighborhoods, one call     *)
(***************************************************************************)

\* the texts the function is called with: a name that holds another name,
\* the long and the short name side by side, the short name beside the long
\* one, the long name between the halves of the short one, other names, none
MentionQueries ==
    {"is mitchell park west quiet", "Mitchell Park West or Mitchell Park",
     "is Kiwanis Park green", "a park near Kiwanis Park", "paKiwanis Parkrk",
     "Maple-Ash and Broadmor", "the parks of Broadmor", "is it near Ash Avenue",
     "no names here", ""}

\* the keys of neighborhoods_data, in the order of the dict
MentionNames ==
    {<<"Park", "Mitchell Park", "Mitchell Park West">>,
     <<"Mitchell Park West", "Mitchell Park">>,
     <<"Park", "Kiwanis Park">>,
     <<"Kiwanis Park", "Broadmor", "Park">>,
     <<"Ash", "Maple-Ash", "Broadmor">>,
     <<"Broadmor", "Warner Ranch">>}

NoMention == [query |-> "", neighborhood_names |-> <<>>, called |-> FALSE, mentioned |-> <<>>]

\* the arguments of the call, before it is made
MentionInit ==
    \E query \in MentionQueries, names \in MentionNames :
        mentionCall = [query |-> query, neighborhood_names |-> names,
                       called |-> FALSE, mentioned |-> <<>>]

\* the call, from entry to return
FindMentioned ==
    /\ ~mentionCall.called
    /\ mentionCall' =
           [mentionCall EXCEPT
               !.called = TRUE,
               !.mentioned = FindMentionedNeighborhoods(mentionCall.query,
                                                        mentionCall.neighborhood_names)]
    /\ UNCHANGED outsideMention

MentionNext == FindMentioned

(***************************************************************************)
(* backend/main.py: the chatbot endpoints on one shared chatbot instance.  *)
(* chat_message is a coroutine that never awaits: the event loop runs one  *)
(* call of it at a time, to its end. reset_chatbot is a plain function:    *)
(* the server runs it on a thread of its pool, beside the event loop, and  *)
(* the interpreter may switch between the two threads at any statement,    *)
(* as it does while get_response waits for the answer of the API.          *)
(***************************************************************************)

\* the messages and the answers of the API the endpoint is exercised with
ApiMessages == {"name the best green score", "Is it near Broadmor"}
ApiReplies  ==
    {Content(JStr("Broadmor is a quiet area")), Content(JStr("I am not sure")), NoReply}

NoRequest == [pc |-> "idle", message |-> "", resolved_message |-> "", user_tokens |-> 0,
              reply |-> NoReply]

\* chat_message up to the call that generates the response (main.py lines
\* 296-330, get_response lines 400-438): the message is put into the history.
\* The request carries no selected neighbourhood.
ChatMessageBegin(message, reply) ==
    /\ inflight.pc = "idle"
    /\ Len(conversation_history) < MaxTurns
    /\ model_ready \/ reply = NoReply
    /\ \E resolved_message \in
              {ResolvePronounsAndReferences(message, current_neighborhood)},
          user_tokens \in {EstimateTokens(JStr(message))} :
          /\ conversation_history' =
                 Append(conversation_history,
                        [user |-> message, resolved_user |-> resolved_message,
                         response |-> JNull, user_tokens |-> user_tokens,
                         bot_tokens |-> JNull])
          /\ inflight' = [pc |-> "generating", message |-> message,
                          resolved_message |-> resolved_message,
                          user_tokens |-> user_tokens, reply |-> reply]
    /\ UNCHANGED <<model_ready, refined_data, lewc_data, definitions_data,
                   current_neighborhood, last_mentioned_neighborhoods,
                   last_discussed_topics, session_facts, total_tokens, lastTurn,
                   resolveCall, mentionCall>>
    /\ UNCHANGED outsideApi

\* the rest of chat_message (get_response lines 440-465, main.py lines
\* 340-343): the response, the token count, the context and, when the
\* history holds an entry (line 456), its last entry
ChatMessageEnd ==
    /\ inflight.pc = "generating"
    /\ \E response \in {
              IF model_ready
              THEN GetTandemnResponse(inflight.resolved_message, inflight.reply,
                                      current_neighborhood, refined_data, total_tokens)
              ELSE GetEnhancedFallbackResponse(
                       inflight.resolved_message,
                       ConvertWebContextToDataFormat(LoadNeighborhoods(DataFile)),
                       current_neighborhood, refined_data, total_tokens)} :
          IF response.exc # "none"
          THEN /\ current_neighborhood' = response.current
               /\ lastTurn' = [NoTurn EXCEPT !.outcome = "error", !.returned = sorry]
               /\ UNCHANGED <<conversation_history, last_mentioned_neighborhoods,
                              last_discussed_topics, session_facts, total_tokens>>
          ELSE \E bot_tokens \in {EstimateTokens(response.text)},
                  updated \in {UpdateConversationContext(
                                  inflight.resolved_message, response.text,
                                  Context(response.current, last_mentioned_neighborhoods,
                                          last_discussed_topics, session_facts),
                                  refined_data)} :
                  /\ total_tokens' = total_tokens + inflight.user_tokens + bot_tokens
                  /\ current_neighborhood' = updated.ctx.current_neighborhood
                  /\ last_mentioned_neighborhoods' =
                         updated.ctx.last_mentioned_neighborhoods
                  /\ last_discussed_topics' = updated.ctx.last_discussed_topics
                  /\ session_facts' = updated.ctx.session_facts
                  /\ conversation_history' =
                         IF conversation_history = <<>> \/ updated.exc # "none"
                         THEN conversation_history
                         ELSE [conversation_history
                                 EXCEPT ![Len(conversation_history)].response =
                                            response.text,
                                        ![Len(conversation_history)].bot_tokens =
                                            JNum(bot_tokens)]
                  /\ lastTurn' =
                         IF updated.exc # "none"
                         THEN [NoTurn EXCEPT !.outcome = "error", !.returned = sorry]
                         ELSE [NoTurn EXCEPT !.outcome = "answered",
                                             !.returned = response.text.s,
                                             !.subject_before_update = response.current]
    /\ inflight' = NoRequest
    /\ UNCHANGED <<model_ready, refined_data, lewc_data, definitions_data, resolveCall,
                   mentionCall>>
    /\ UNCHANGED outsideApi

\* reset_chatbot (main.py lines 359-367): chatbot_instance.reset(), on a
\* thread of the pool, whatever the event loop is doing
ResetChatbot ==
    /\ conversation_history' = <<>>
    /\ current_neighborhood' = JNull
    /\ last_mentioned_neighborhoods' = <<>>
    /\ last_discussed_topics' = <<>>
    /\ session_facts' = NoFacts
    /\ total_tokens' = 0
    /\ lastTurn' = [NoTurn EXCEPT !.outcome = "reset"]
    /\ UNCHANGED <<model_ready, refined_data, lewc_data, definitions_data,
                   resolveCall, mentionCall, inflight>>
    /\ UNCHANGED outsideApi

ApiNext ==
    \/ \E message \in ApiMessages, reply \in ApiReplies : ChatMessageBegin(message, reply)
    \/ ChatMessageEnd
    \/ ResetChatbot

(***************************************************************************)
(* Scraper-Agent/data_exp.py: the rewriting stage                          *)
(***************************************************************************)

\* max_retries, line 19
max_retries == 3

\* the wait after a failed attempt: a constant second
BackoffConstant(attempt) == 1

\* the wait after a failed attempt, line 32: time.sleep(2 ** attempt)
Backoff(attempt) == 2 ^ attempt

\* explanation_keys, lines 104-110
explanation_keys ==
    << "aqi_reason", "greenery_coverage_exp", "water_quality_exp", "cleanliness_exp",
       "power_grid_reliability_exp", "road_quality_exp", "public_safety_exp",
       "walkability_explanation", "public_transit_access_explanation",
       "renewable_energy_adoption_explanation", "recycling_rate_explanation",
       "local_business_sustainability_practices_explanation",
       "circular_economy_indicators_explanation" >>

\* what client.chat.completions.create can do (lines 22-27): answer with a
\* text, answer with a text of blanks, answer with no content, or raise
Completions ==
    { [kind |-> "text",       content |-> JStr("  Broadmor breathes easy.  ")],
      [kind |-> "blank",      content |-> JStr("   ")],
      [kind |-> "no_content", content |-> JNull],
      [kind |-> "raises",     content |-> JNull] }

\* lines 22-28: the call, then choices[0].message.content.strip()
Generate(completion) ==
    CASE completion.kind = "raises"    -> Raise("APIError")
      [] completion.content.t # "str"  -> Raise("AttributeError")
      [] OTHER                         -> Ret(JStr(PyStrip(completion.content.s)))

\* the entries data_exp_2.py writes (its lines 83-103), cut to the keys the
\* model follows: the i-th neighbourhood of the input file
ReportEntry(i) ==
    CASE i % 3 = 1 ->
           [name |-> "Broadmor",
            data |-> JDict([description |-> JStr("A neighborhood within the city of Tempe, AZ."),
                            homeowners |-> JDict(
                                [air_quality |-> JNum(7),
                                 aqi_reason |-> JStr("Air quality rating is 7/10."),
                                 walkability |-> JNum(9),
                                 walkability_explanation |-> JStr("Found 9 amenities.")])])]
      [] i % 3 = 2 ->
           [name |-> "Alameda Meadows",
            data |-> JDict([description |-> JStr("A neighborhood within the city of Tempe, AZ."),
                            homeowners |-> JDict(
                                [water_quality |-> JNum(7),
                                 water_quality_exp |-> JStr("No violations found.")])])]
      [] OTHER ->
           [name |-> "Brentwood Cavalier",
            data |-> JDict([description |-> JStr("A neighborhood within the city of Tempe, AZ."),
                            homeowners |-> JDict([air_quality |-> JNum(9)])])]

\* the input files: none, an empty one, and the first n entries
RewriteInputs ==
    {[exists |-> FALSE, data |-> <<>>]}
    \cup {[exists |-> TRUE, data |-> [i \in 1..n |-> ReportEntry(i)]] : n \in 0..MaxNbhd}

\* data.get("homeowners", {}), line 116
HomeownersOf(data) ==
    IF "homeowners" \in DOMAIN data.d THEN data.d.homeowners ELSE JDict(NoKeys)

\* lines 114-118: the (neighbourhood, key) pairs the two loops stop at, in
\* their order
Explanations(all) ==
    LET pairs == [j \in 1..(Len(all) * Len(explanation_keys)) |->
                     [n   |-> ((j - 1) \div Len(explanation_keys)) + 1,
                      key |-> explanation_keys[((j - 1) % Len(explanation_keys)) + 1]]]
        present(p) == p.key \in DOMAIN HomeownersOf(all[p.n].data).d
    IN  SelectSeq(pairs, present)

\* homeowners_data[key]
TextAt(all, p) == HomeownersOf(all[p.n].data).d[p.key]

\* the value line 125-129 leaves under the key: an empty original
KeptOrCleared(new_text, original) == IF Truthy(new_text) THEN new_text ELSE JStr("")

\* the value lines 125-129 leave under the key
Kept(new_text, original) == IF Truthy(new_text) THEN new_text ELSE original

\* homeowners_data[key] = value
WithText(all, p, value) ==
    [all EXCEPT ![p.n].data.d.homeowners.d[p.key] = value]

\* score_map[key], line 111: key.replace("_exp", "").replace("_explanation", "")
score_map(key) == PyReplace(PyReplace(key, "_exp", ""), "_explanation", "")

\* homeowners_data.get(score_key, "N/A"), line 120
ScoreAt(all, p) ==
    LET homeowners_data == HomeownersOf(all[p.n].data).d
        score_key       == score_map(p.key)
    IN  IF score_key \in DOMAIN homeowners_data THEN homeowners_data[score_key]
        ELSE JStr("N/A")

\* topic_map of generate_rewrite_prompt, lines 41-49
topic_map ==
    << "Air Quality", "Greenery and Park Access", "Water Quality",
       "Neighborhood Cleanliness", "Power Grid Reliability", "Road Quality",
       "Public Safety", "Walkability", "Public Transit Access", "Renewable Energy",
       "Recycling Program Effectiveness", "Local Business Sustainability",
       "Circular Economy Indicators" >>

\* generate_rewrite_prompt, lines 36-65: the values the template is filled
\* with; topic_map holds every key of explanation_keys
generate_rewrite_prompt(neighborhood_name, topic, score, original_text) ==
    [neighborhood_name |-> neighborhood_name,
     topic |-> topic_map[CHOOSE i \in 1..Len(explanation_keys) : explanation_keys[i] = topic],
     score |-> score,
     original_text |-> original_text]

NoPrompt  == [neighborhood_name |-> "", topic |-> "", score |-> JNull, original_text |-> JNull]
NoRewrite ==
    [prompt |-> NoPrompt, attempt |-> 0, calls |-> <<>>, sleeps |-> <<>>, returned |-> JNull]
NoFile    == [written |-> FALSE, content |-> <<>>]

RewriteInit ==
    /\ cerebras_api_key \in BOOLEAN
    /\ rwInput \in RewriteInputs
    /\ all_neighborhood_data = <<>>
    /\ rwPc = "start"
    /\ rwPos = 0
    /\ rewrite = NoRewrite
    /\ rwLog = <<>>
    /\ rwFile = NoFile

\* process_data_with_cerebras, lines 71-101: the key, the input file, the
\* first entry
ProcessStart ==
    /\ rwPc = "start"
    /\ IF cerebras_api_key /\ rwInput.exists /\ rwInput.data # <<>>
       THEN /\ all_neighborhood_data' = rwInput.data
            /\ rwPc' = "loop"
       ELSE /\ rwPc' = "exit"
            /\ UNCHANGED all_neighborhood_data
    /\ UNCHANGED <<cerebras_api_key, rwInput, rwPos, rewrite, rwLog, rwFile>>
    /\ UNCHANGED outsideRewrite

\* lines 114-123: the loops advance to the next key that is present and
\* rewrite_explanation_with_cerebras is entered
NextExplanation ==
    /\ rwPc = "loop"
    /\ rwPos < Len(Explanations(all_neighborhood_data))
    /\ rwPos' = rwPos + 1
    /\ LET p == Explanations(all_neighborhood_data)[rwPos + 1]
       IN  rewrite' =
               [NoRewrite EXCEPT !.prompt =
                   generate_rewrite_prompt(all_neighborhood_data[p.n].name, p.key,
                                           ScoreAt(all_neighborhood_data, p),
                                           TextAt(all_neighborhood_data, p))]
    /\ rwPc' = "rewriting"
    /\ UNCHANGED <<cerebras_api_key, rwInput, all_neighborhood_data, rwLog, rwFile>>
    /\ UNCHANGED outsideRewrite

\* rewrite_explanation_with_cerebras, lines 20-35: one turn of the loop
RewriteAttempt(completion) ==
    /\ rwPc = "rewriting"
    /\ LET outcome == Generate(completion)
           called  == [rewrite EXCEPT !.calls = Append(@, completion.kind)]
       IN  IF outcome.exc = "none"
           THEN /\ rewrite' = [called EXCEPT !.returned = outcome.val]
                /\ rwPc' = "returned"
           ELSE IF rewrite.attempt < max_retries - 1
           THEN /\ rewrite' = [called EXCEPT !.sleeps = Append(@, Backoff(rewrite.attempt)),
                                             !.attempt = @ + 1]
                /\ rwPc' = "rewriting"
           ELSE /\ rewrite' = [called EXCEPT !.returned = JNull]
                /\ rwPc' = "returned"
    /\ UNCHANGED <<cerebras_api_key, rwInput, all_neighborhood_data, rwPos, rwLog, rwFile>>
    /\ UNCHANGED outsideRewrite

\* lines 125-130: the new text replaces the old one, or the old one stays
Keep ==
    /\ rwPc = "returned"
    /\ LET p == Explanations(all_neighborhood_data)[rwPos]
       IN  /\ all_neighborhood_data' =
                  WithText(all_neighborhood_data, p,
                           Kept(rewrite.returned, TextAt(all_neighborhood_data, p)))
           /\ rwLog' = Append(rwLog, [n |-> p.n, key |-> p.key, new_text |-> rewrite.returned])
    /\ rwPc' = "loop"
    /\ UNCHANGED <<cerebras_api_key, rwInput, rwPos, rewrite, rwFile>>
    /\ UNCHANGED outsideRewrite

\* lines 132-135: json.dump after the loops
WriteReport ==
    /\ rwPc = "loop"
    /\ rwPos = Len(Explanations(all_neighborhood_data))
    /\ rwFile' = [written |-> TRUE, content |-> all_neighborhood_data]
    /\ rwPc' = "done"
    /\ UNCHANGED <<cerebras_api_key, rwInput, all_neighborhood_data, rwPos, rewrite, rwLog>>
    /\ UNCHANGED outsideRewrite

RewriteNext ==
    \/ ProcessStart
    \/ NextExplanation
    \/ \E completion \in Completions : RewriteAttempt(completion)
    \/ Keep
    \/ WriteReport

(***************************************************************************)
(* Scraper-Agent/gs_converter.py: the aggregation stage                    *)
(***************************************************************************)

\* score_keys, lines 21-26
score_keys ==
    << "air_quality", "greenery_coverage", "water_quality", "cleanliness",
       "power_grid_reliability", "road_quality", "public_safety", "walkability",
       "public_transit_access", "renewable_energy_adoption", "recycling_rate",
       "local_business_sustainability_practices", "circular_economy_indicators" >>

\* JSON true and false, and a float kept as its number of hundredths
JBool(b)  == [t |-> "bool", b |-> b]
JFloat(h) == [t |-> "float", hundredths |-> h]

\* isinstance(x, (int, float)), line 33: bool is a subclass of int
IsIntOrFloat(x) == x.t \in {"num", "bool"}

\* the value of x in sum(), line 35: True is 1 and False is 0
NumberOf(x) == IF x.t = "bool" THEN (IF x.b THEN 1 ELSE 0) ELSE x.n

\* line 32: data.get("homeowners", {})
HomeownersData(data) ==
    IF "homeowners" \in DOMAIN data.d THEN data.d.homeowners ELSE JDict(NoKeys)

\* line 33: the list comprehension over score_keys
Scores(homeowners_data) ==
    LET counted(key) == /\ key \in DOMAIN homeowners_data.d
                        /\ IsIntOrFloat(homeowners_data.d[key])
        keys == SelectSeq(score_keys, counted)
    IN  [i \in 1..Len(keys) |-> NumberOf(homeowners_data.d[keys[i]])]

RECURSIVE PySum(_)
\* sum(scores)
PySum(scores) == IF scores = <<>> THEN 0 ELSE Head(scores) + PySum(Tail(scores))

\* round(a / b, 2) in hundredths, for a >= 0 and b > 0: the quotient of two
\* small integers lies nearer to its exact value than to any other tie, and a
\* tie is a multiple of 1/8, which a float holds exactly and round() sends to
\* the even neighbour
RoundedQuotient(a, b) ==
    LET q == (100 * a) \div b
        r == (100 * a) % b
    IN  IF 2 * r < b THEN q
        ELSE IF 2 * r > b THEN q + 1
        ELSE IF q % 2 = 0 THEN q ELSE q + 1

\* the mean with a missing metric counted as zero
GreenScoreOverAllKeys(scores) ==
    IF scores # <<>> THEN RoundedQuotient(PySum(scores), Len(score_keys)) ELSE 0

\* lines 35 and 42: round(sum(scores) / len(scores) if scores else 0.0, 2)
GreenScore(scores) ==
    IF scores # <<>> THEN RoundedQuotient(PySum(scores), Len(scores)) ELSE 0

\* data.get(key), lines 38-41
GetOrNone(data, key) == IF key \in DOMAIN data.d THEN data.d[key] ELSE JNull

\* the entry of the report with a description that says it was scored
FinalizedAnnotated(data) ==
    JDict([id          |-> GetOrNone(data, "id"),
           name        |-> GetOrNone(data, "name"),
           coordinates |-> GetOrNone(data, "coordinates"),
           description |-> IF GetOrNone(data, "description").t = "str"
                           THEN JStr(GetOrNone(data, "description").s \o " Scored.")
                           ELSE GetOrNone(data, "description"),
           green_score |-> JFloat(GreenScore(Scores(HomeownersData(data)))),
           homeowners  |-> HomeownersData(data)])

\* lines 37-44: the entry of the report
Finalized(data) ==
    JDict([id          |-> GetOrNone(data, "id"),
           name        |-> GetOrNone(data, "name"),
           coordinates |-> GetOrNone(data, "coordinates"),
           description |-> GetOrNone(data, "description"),
           green_score |-> JFloat(GreenScore(Scores(HomeownersData(data)))),
           homeowners  |-> HomeownersData(data)])

\* a key that is not in the file
Absent == [t |-> "absent"]

\* the dict of the keys of f that are in the file
DictOf(f) == JDict([k \in {j \in DOMAIN f : f[j] # Absent} |-> f[k]])

\* the homeowners dicts of the inputs: metrics that are numbers, missing, a
\* text or a JSON true, a numeric key that score_keys does not list, and an
\* explanation
HomeownersPool ==
    { DictOf(f) : f \in [air_quality   : {Absent, JNum(7), JNum(8), JStr("N/A"), JBool(TRUE)},
                         walkability   : {Absent, JNum(4)},
                         water_quality : {Absent, JNum(10)},
                         noise_level   : {Absent, JNum(1)},
                         aqi_reason    : {JStr("Air quality rating is 7/10.")}] }

\* the entry data_exp.py passes on for the i-th neighbourhood
PersonalizedEntry(i) ==
    [name |-> ReportEntry(i).name,
     data |-> JDict([id          |-> JNum(i),
                     name        |-> JStr(ReportEntry(i).name),
                     coordinates |-> JDict([lat |-> JNum(33), lng |-> JNum(-111)]),
                     description |-> ReportEntry(i).data.d.description,
                     homeowners  |-> ReportEntry(i).data.d.homeowners])]

\* the same entry without the key homeowners
WithoutHomeowners(entry) ==
    [entry EXCEPT !.data = JDict([k \in DOMAIN entry.data.d \ {"homeowners"} |->
                                      entry.data.d[k]])]

\* the input files: none, the first n entries, and those with one entry varied
FinalizeInputs ==
    {[exists |-> FALSE, data |-> <<>>]}
    \cup {[exists |-> TRUE, data |-> [i \in 1..n |-> PersonalizedEntry(i)]] : n \in 0..MaxNbhd}
    \cup {[exists |-> TRUE,
           data |-> [i \in 1..n |->
                        IF i # v THEN PersonalizedEntry(i)
                        ELSE [PersonalizedEntry(i) EXCEPT !.data.d.homeowners = h]]]
          : n \in 1..MaxNbhd, v \in 1..MaxNbhd, h \in HomeownersPool}
    \cup {[exists |-> TRUE,
           data |-> [i \in 1..n |->
                        IF i # v THEN PersonalizedEntry(i)
                        ELSE WithoutHomeowners(PersonalizedEntry(i))]]
          : n \in 1..MaxNbhd, v \in 1..MaxNbhd}

FinalizeInit ==
    /\ personalized_data \in FinalizeInputs
    /\ gsPc = "start"
    /\ finalized_report = <<>>
    /\ gsFile = NoFile
    /\ gsRun = 1

\* calculate_and_finalize_data, lines 14-29: the input file is loaded
FinalizeLoad ==
    /\ gsPc = "start"
    /\ gsPc' = IF personalized_data.exists THEN "loop" ELSE "exit"
    /\ UNCHANGED <<personalized_data, finalized_report, gsFile, gsRun>>
    /\ UNCHANGED outsideFinalize

\* lines 31-44: one turn of the loop
FinalizeEntry ==
    /\ gsPc = "loop"
    /\ Len(finalized_report) < Len(personalized_data.data)
    /\ LET entry == personalized_data.data[Len(finalized_report) + 1]
       IN  finalized_report' =
               Append(finalized_report, [name |-> entry.name, data |-> Finalized(entry.data)])
    /\ UNCHANGED <<personalized_data, gsPc, gsFile, gsRun>>
    /\ UNCHANGED outsideFinalize

\* lines 45-50: json.dump after the loop
WriteFinal ==
    /\ gsPc = "loop"
    /\ Len(finalized_report) = Len(personalized_data.data)
    /\ gsFile' = [written |-> TRUE, content |-> finalized_report]
    /\ gsPc' = "done"
    /\ UNCHANGED <<personalized_data, finalized_report, gsRun>>
    /\ UNCHANGED outsideFinalize

\* main, lines 52-60, once more: the file the first run wrote is the
\* --input-file of the second run
FinalizeAgain ==
    /\ gsPc = "done"
    /\ gsRun = 1
    /\ personalized_data' = [exists |-> TRUE, data |-> gsFile.content]
    /\ gsPc' = "start"
    /\ finalized_report' = <<>>
    /\ gsRun' = 2
    /\ UNCHANGED gsFile
    /\ UNCHANGED outsideFinalize

FinalizeNext ==
    \/ FinalizeLoad
    \/ FinalizeEntry
    \/ WriteFinal
    \/ FinalizeAgain

(***************************************************************************)
(* Scraper-Agent/data_exp_2.py: the feature-aggregation stage              *)
(***************************************************************************)

\* the largest count and the largest AQI reading a server answers with
MaxCount == 151

\* what a server does with one request: no connection, an error status, a
\* body that is not JSON, or a JSON body
NetworkError == [kind |-> "network_error", body |-> JNull]
ErrorStatus  == [kind |-> "error_status", body |-> JNull]
NotJson      == [kind |-> "not_json", body |-> JNull]
Json(body)   == [kind |-> "json", body |-> body]

\* the request raised a RequestException: requests raises its ConnectionError
\* and Timeout, raise_for_status its HTTPError, and response.json() its
\* JSONDecodeError, which are all RequestExceptions
RequestFailed(reply) == reply.kind # "json"

\* get_air_quality, lines 9-19
get_air_quality(reply) ==
    IF RequestFailed(reply) THEN Ret(JNull)
    ELSE IF reply.body.t # "dict" THEN Raise("AttributeError")
    ELSE IF "current" \notin DOMAIN reply.body.d THEN Ret(JNull)
    ELSE IF reply.body.d.current.t # "dict" THEN Raise("AttributeError")
    ELSE Ret(GetOrNone(reply.body.d.current, "us_aqi"))

\* query_overpass_api, lines 21-29
query_overpass_api(reply) == IF RequestFailed(reply) THEN JNull ELSE reply.body

\* int(x), line 36, for a number or a text of digits
PyInt(x) ==
    CASE x.t = "num"  -> Ret(x.n)
      [] x.t = "str"  -> IF \E n \in 0..MaxCount : NatStr(n) = x.s
                         THEN Ret(CHOOSE n \in 0..MaxCount : NatStr(n) = x.s)
                         ELSE Raise("ValueError")
      [] x.t = "bool" -> Ret(IF x.b THEN 1 ELSE 0)
      [] OTHER        -> Raise("TypeError")

\* get_feature_count without the except clause of query_overpass_api
get_feature_count_unguarded(reply) ==
    LET data == reply.body
    IN  IF RequestFailed(reply) THEN Raise("RequestException")
        ELSE IF ~Truthy(data) THEN Ret(0)
        ELSE IF data.t # "dict" THEN Raise("AttributeError")
        ELSE IF "tags" \notin DOMAIN data.d THEN Ret(0)
        ELSE IF data.d.tags.t # "dict" THEN Raise("AttributeError")
        ELSE IF "total" \notin DOMAIN data.d.tags.d THEN Ret(0)
        ELSE PyInt(data.d.tags.d.total)

\* get_feature_count, lines 31-36: 0 without data, else
\* int(data.get("tags", {}).get("total", 0))
get_feature_count(reply) ==
    LET data == query_overpass_api(reply)
    IN  IF ~Truthy(data) THEN Ret(0)
        ELSE IF data.t # "dict" THEN Raise("AttributeError")
        ELSE IF "tags" \notin DOMAIN data.d THEN Ret(0)
        ELSE IF data.d.tags.t # "dict" THEN Raise("AttributeError")
        ELSE IF "total" \notin DOMAIN data.d.tags.d THEN Ret(0)
        ELSE PyInt(data.d.tags.d.total)

\* aqi_to_rating with the third step read as "below 100"
aqi_to_rating_below(aqi) ==
    IF aqi.t = "null" THEN 5
    ELSE IF aqi.n <= 25 THEN 10
    ELSE IF aqi.n <= 50 THEN 8
    ELSE IF aqi.n < 100 THEN 6
    ELSE IF aqi.n <= 150 THEN 4
    ELSE 2

\* aqi_to_rating, lines 38-44, for None or a number
aqi_to_rating(aqi) ==
    IF aqi.t = "null" THEN 5
    ELSE IF aqi.n <= 25 THEN 10
    ELSE IF aqi.n <= 50 THEN 8
    ELSE IF aqi.n <= 100 THEN 6
    ELSE IF aqi.n <= 150 THEN 4
    ELSE 2

\* score_greenery with the second threshold read as "more than 3"
score_greenery_above_three(count) ==
    IF count > 5 THEN 9 ELSE IF count > 3 THEN 7 ELSE IF count >= 1 THEN 5 ELSE 2

\* lines 46-49
score_greenery(count) ==
    IF count > 5 THEN 9 ELSE IF count >= 3 THEN 7 ELSE IF count >= 1 THEN 5 ELSE 2
score_walkability(count) ==
    IF count > 100 THEN 10 ELSE IF count > 50 THEN 8 ELSE IF count > 20 THEN 6
    ELSE IF count > 5 THEN 4 ELSE 2
score_transit(count) ==
    IF count > 20 THEN 9 ELSE IF count > 10 THEN 7 ELSE IF count > 5 THEN 5
    ELSE IF count > 0 THEN 3 ELSE 1
score_circular_economy(count) ==
    IF count > 5 THEN 8 ELSE IF count > 2 THEN 6 ELSE IF count > 0 THEN 4 ELSE 2

\* the feature queries of lines 72-75, in their order
feature_queries == <<"park", "restaurant", "supermarket", "bus_stop", "recycling">>

\* the value all([name, lat, lon]) tests, line 64, with the coordinates
\* taken as present whenever they are numbers
HasNameAndNumbers(hood) ==
    /\ Truthy(GetOrNone(hood, "neighbourhood_name"))
    /\ GetOrNone(hood, "latitude") # JNull
    /\ GetOrNone(hood, "longitude") # JNull

\* all([name, lat, lon]), line 64
HasNameAndCoordinates(hood) ==
    /\ Truthy(GetOrNone(hood, "neighbourhood_name"))
    /\ Truthy(GetOrNone(hood, "latitude"))
    /\ Truthy(GetOrNone(hood, "longitude"))

\* lines 83-97: homeowners_data from the rating and the four counts
HomeownersOfCounts(aqi_rating, park_count, amenity_count, bus_stop_count, recycling_count) ==
    JDict([air_quality |-> JNum(aqi_rating),
           aqi_reason |-> JStr("Air quality rating is " \o NatStr(aqi_rating)
                               \o "/10 based on regional data."),
           greenery_coverage |-> JNum(score_greenery(park_count)),
           greenery_coverage_exp |-> JStr("Based on finding " \o NatStr(park_count)
                                          \o " parks nearby."),
           water_quality |-> JNum(8),
           water_quality_exp |->
               JStr("Water quality is generally high and meets federal standards."),
           cleanliness |-> JNum(7),
           cleanliness_exp |-> JStr("Cleanliness is maintained by city services, rated 7/10."),
           power_grid_reliability |-> JNum(9),
           power_grid_reliability_exp |->
               JStr("Power grid is highly reliable with infrequent outages."),
           road_quality |-> JNum(8),
           road_quality_exp |-> JStr("Roads are well-maintained by the city."),
           public_safety |-> JNum(8),
           public_safety_exp |-> JStr("Public safety is high with low rates of major crime."),
           walkability |-> JNum(score_walkability(amenity_count)),
           walkability_explanation |-> JStr("Based on finding " \o NatStr(amenity_count)
                                            \o " key amenities nearby."),
           public_transit_access |-> JNum(score_transit(bus_stop_count)),
           public_transit_access_explanation |->
               JStr("Based on finding " \o NatStr(bus_stop_count) \o " bus stops nearby."),
           renewable_energy_adoption |-> JNum(6),
           renewable_energy_adoption_explanation |->
               JStr("Solar adoption is moderate and growing."),
           recycling_rate |-> JNum(7),
           recycling_rate_explanation |->
               JStr("City-wide recycling programs are in place and effective."),
           local_business_sustainability_practices |-> JNum(6),
           local_business_sustainability_practices_explanation |->
               JStr("Sustainability among local businesses is a growing trend."),
           circular_economy_indicators |-> JNum(score_circular_economy(recycling_count)),
           circular_economy_indicators_explanation |->
               JStr("Based on finding " \o NatStr(recycling_count)
                    \o " recycling facilities.")])

\* lines 99-104: the entry of a neighbourhood
InitialEntry(hood, homeowners_data) ==
    JDict([id          |-> GetOrNone(hood, "id"),
           name        |-> GetOrNone(hood, "neighbourhood_name"),
           coordinates |-> JDict([lat |-> GetOrNone(hood, "latitude"),
                                  lng |-> GetOrNone(hood, "longitude")]),
           description |->
               JStr("A neighborhood within the city, awaiting detailed description."),
           homeowners  |-> homeowners_data])

\* d[name] = data for a dict kept in the order of its first insertions
DictPut(d, name, data) ==
    IF \E i \in 1..Len(d) : d[i].name = name
    THEN [i \in 1..Len(d) |-> IF d[i].name = name THEN [name |-> name, data |-> data]
                              ELSE d[i]]
    ELSE Append(d, [name |-> name, data |-> data])

\* the record Coordinate_finder.py writes for the i-th neighbourhood
GeocodedHood(i) ==
    JDict([id |-> JNum(i),
           neighbourhood_name |-> JStr(ReportEntry(i).name),
           latitude |-> JNum(33),
           longitude |-> JNum(-111)])

\* records with a name that is missing or empty and with coordinates that are
\* null, zero or missing
OddHoods ==
    { DictOf(f) : f \in [id : {JNum(9)},
                         neighbourhood_name : {Absent, JStr(""), JStr("Camelot Village")},
                         latitude  : {Absent, JNull, JNum(0), JNum(33)},
                         longitude : {JNull, JNum(0), JNum(-111)}] }

\* the input files: none, the first n records, and those with one more
\* record at some place
FeatureInputs ==
    {[exists |-> FALSE, data |-> <<>>]}
    \cup {[exists |-> TRUE, data |-> [i \in 1..n |-> GeocodedHood(i)]] : n \in 0..MaxNbhd}
    \cup {[exists |-> TRUE,
           data |-> [i \in 1..n |-> IF i = v THEN h
                                    ELSE GeocodedHood(IF i < v THEN i ELSE i - 1)]]
          : n \in 1..MaxNbhd, v \in 1..MaxNbhd, h \in OddHoods}

\* a body with the count total, and a body with the reading us_aqi
CountBody(total) == Json(JDict([tags |-> JDict([total |-> total])]))
AqiBody(us_aqi)  == Json(JDict([current |-> JDict([us_aqi |-> us_aqi])]))

\* what a server does while it is out of order; the last one is a JSON body
\* of another shape
Outages == {NetworkError, ErrorStatus, NotJson, Json(JList(<<JNum(1)>>))}

\* the servers of one run: what they answer, and the place in the input of
\* the neighbourhood during whose queries they are out of order (0: never)
FeatureServers ==
    [outage : 0..MaxNbhd, count : {CountBody(JStr("6"))}, aqi : {AqiBody(JNum(40))}]

\* the servers always answer, with one count and reading in any one run
ScoreServers ==
    UNION { { [outage |-> 0, count |-> CountBody(JNum(c)), aqi |-> AqiBody(r)]
              : r \in {JNull, JNum(c)} } : c \in 0..MaxCount }

NoHood == [step |-> 0, aqi |-> JNull, counts |-> <<>>, failed |-> <<>>, last |-> "none"]

FeatureInit ==
    /\ feInput \in FeatureInputs
    /\ feEnv \in FeatureServers
    /\ fePc = "start"
    /\ fePos = 0
    /\ feHood = NoHood
    /\ initial_data = <<>>
    /\ feLog = <<>>
    /\ feFile = NoFile

\* one geocoded neighbourhood, and servers that always answer
ScoreInit ==
    /\ feInput = [exists |-> TRUE, data |-> <<GeocodedHood(1)>>]
    /\ feEnv \in ScoreServers
    /\ fePc = "start"
    /\ fePos = 0
    /\ feHood = NoHood
    /\ initial_data = <<>>
    /\ feLog = <<>>
    /\ feFile = NoFile

\* generate_sustainability_data, lines 52-60
FeatureLoad ==
    /\ fePc = "start"
    /\ fePc' = IF feInput.exists THEN "loop" ELSE "exit"
    /\ UNCHANGED <<feInput, feEnv, fePos, feHood, initial_data, feLog, feFile>>
    /\ UNCHANGED outsideFeature

\* lines 62-68: the next record of the input is skipped or taken up
NextHood ==
    /\ fePc = "loop"
    /\ fePos < Len(feInput.data)
    /\ fePos' = fePos + 1
    /\ fePc' = IF HasNameAndCoordinates(feInput.data[fePos + 1]) THEN "fetching" ELSE "loop"
    /\ feHood' = NoHood
    /\ UNCHANGED <<feInput, feEnv, initial_data, feLog, feFile>>
    /\ UNCHANGED outsideFeature

\* what the servers can do with a request made for the record at place pos
RepliesAt(ok, pos) == {ok} \cup (IF feEnv.outage = pos THEN Outages ELSE {})

\* line 71: get_air_quality
FetchAirQuality(reply) ==
    /\ fePc = "fetching"
    /\ feHood.step = 0
    /\ reply \in RepliesAt(feEnv.aqi, fePos)
    /\ LET r == get_air_quality(reply)
       IN  IF r.exc = "none"
           THEN /\ feHood' = [feHood EXCEPT !.step = 1, !.aqi = r.val, !.last = reply.kind]
                /\ fePc' = "fetching"
           ELSE /\ fePc' = "crashed"
                /\ feHood' = [feHood EXCEPT !.last = reply.kind]
    /\ UNCHANGED <<feInput, feEnv, fePos, initial_data, feLog, feFile>>
    /\ UNCHANGED outsideFeature

\* lines 72-75: one call of get_feature_count
FetchFeatureCount(reply) ==
    /\ fePc = "fetching"
    /\ feHood.step \in 1..Len(feature_queries)
    /\ reply \in RepliesAt(feEnv.count, fePos)
    /\ LET r == get_feature_count(reply)
       IN  IF r.exc = "none"
           THEN /\ feHood' = [feHood EXCEPT !.step = @ + 1,
                                            !.counts = Append(@, r.val),
                                            !.failed = Append(@, RequestFailed(reply)),
                                            !.last = reply.kind]
                /\ fePc' = "fetching"
           ELSE /\ fePc' = "crashed"
                /\ feHood' = [feHood EXCEPT !.last = reply.kind]
    /\ UNCHANGED <<feInput, feEnv, fePos, initial_data, feLog, feFile>>
    /\ UNCHANGED outsideFeature

\* lines 71-105, after the queries: the rating, the scores and the entry
EmitHood ==
    /\ fePc = "fetching"
    /\ feHood.step = Len(feature_queries) + 1
    /\ LET hood == feInput.data[fePos]
           c    == feHood.counts
           h    == HomeownersOfCounts(aqi_to_rating(feHood.aqi), c[1], c[2] + c[3], c[4], c[5])
       IN  /\ initial_data' = DictPut(initial_data, hood.d.neighbourhood_name.s,
                                      InitialEntry(hood, h))
           /\ feLog' = Append(feLog, [place |-> fePos, aqi |-> feHood.aqi,
                                      counts |-> c, failed |-> feHood.failed])
    /\ fePc' = "loop"
    /\ feHood' = NoHood
    /\ UNCHANGED <<feInput, feEnv, fePos, feFile>>
    /\ UNCHANGED outsideFeature

\* lines 107-110: json.dump after the loop
WriteInitial ==
    /\ fePc = "loop"
    /\ fePos = Len(feInput.data)
    /\ feFile' = [written |-> TRUE, content |-> initial_data]
    /\ fePc' = "done"
    /\ UNCHANGED <<feInput, feEnv, fePos, feHood, initial_data, feLog>>
    /\ UNCHANGED outsideFeature

FeatureNext ==
    \/ FeatureLoad
    \/ NextHood
    \/ \E reply \in RepliesAt(feEnv.aqi, fePos) : FetchAirQuality(reply)
    \/ \E reply \in RepliesAt(feEnv.count, fePos) : FetchFeatureCount(reply)
    \/ EmitHood
    \/ WriteInitial

(***************************************************************************)
(* Specifications                                                          *)
(***************************************************************************)

\* every program before it starts
Init ==
    /\ PipelineInit /\ GeoInit /\ ChatInit /\ ResolveInit /\ MentionInit
    /\ inflight = NoRequest
    /\ RewriteInit /\ FinalizeInit /\ FeatureInit

\* the settings of the programs a specification does not run
GeoIdle   == GeoInit /\ ~google_api_key
ChatIdle  == ChatInit /\ ~model_ready
CallIdle  == resolveCall = NoCall /\ mentionCall = NoMention /\ inflight = NoRequest
FeatureIdle == FeatureInit /\ ~feInput.exists /\ feEnv.outage = 0
StageIdle ==
    /\ RewriteInit /\ ~cerebras_api_key /\ ~rwInput.exists
    /\ FinalizeInit /\ ~personalized_data.exists
    /\ FeatureIdle

\* the pipeline runner with the discovery stage
PipelineStart == PipelineInit /\ GeoIdle /\ ChatIdle /\ CallIdle /\ StageIdle
PipelineSpec  == PipelineStart /\ [][PipelineNext]_vars

\* the concurrent geocoding stage
GeoStart == PipelineInit /\ GeoInit /\ ChatIdle /\ CallIdle /\ StageIdle
GeoSpec  == GeoStart /\ [][GeoNext]_vars

\* one chat session
ChatStart == PipelineInit /\ GeoIdle /\ ChatInit /\ CallIdle /\ StageIdle
ChatSpec  == ChatStart /\ [][ChatNext]_vars

\* one call of _resolve_pronouns_and_references
ResolveStart ==
    /\ PipelineInit /\ GeoIdle /\ ChatIdle /\ StageIdle
    /\ ResolveInit /\ mentionCall = NoMention /\ inflight = NoRequest
ResolveSpec  == ResolveStart /\ [][ResolveNext]_vars

\* single calls of the scan for neighbourhood names
MentionStart ==
    /\ PipelineInit /\ GeoIdle /\ ChatIdle /\ StageIdle
    /\ resolveCall = NoCall /\ MentionInit /\ inflight = NoRequest
MentionSpec  == MentionStart /\ [][MentionNext]_vars

\* the chatbot endpoints of the API on the shared instance
ApiStart == PipelineInit /\ GeoIdle /\ ChatInit /\ CallIdle /\ StageIdle
ApiSpec  == ApiStart /\ [][ApiNext]_vars

\* the rewriting stage: a sequential script, which runs on while it can
RewriteStart ==
    /\ PipelineInit /\ GeoIdle /\ ChatIdle /\ CallIdle
    /\ RewriteInit /\ FinalizeInit /\ ~personalized_data.exists /\ FeatureIdle
RewriteSpec  == RewriteStart /\ [][RewriteNext]_vars /\ WF_vars(RewriteNext)

\* the aggregation stage
FinalizeStart ==
    /\ PipelineInit /\ GeoIdle /\ ChatIdle /\ CallIdle
    /\ RewriteInit /\ ~cerebras_api_key /\ ~rwInput.exists /\ FinalizeInit /\ FeatureIdle
FinalizeSpec  == FinalizeStart /\ [][FinalizeNext]_vars

\* the settings of the rewriting and the aggregation stage when they do not run
LaterStagesIdle ==
    /\ RewriteInit /\ ~cerebras_api_key /\ ~rwInput.exists
    /\ FinalizeInit /\ ~personalized_data.exists

\* the feature-aggregation stage, with servers that fail during one
\* neighbourhood
FeatureStart == PipelineInit /\ GeoIdle /\ ChatIdle /\ CallIdle /\ LaterStagesIdle /\ FeatureInit
FeatureSpec  == FeatureStart /\ [][FeatureNext]_vars

\* the feature-aggregation stage on one neighbourhood, over the counts and
\* readings the servers can answer with
ScoreStart == PipelineInit /\ GeoIdle /\ ChatIdle /\ CallIdle /\ LaterStagesIdle /\ ScoreInit
ScoreSpec  == ScoreStart /\ [][FeatureNext]_vars

(***************************************************************************)
(* Properties of the concurrent geocoding stage                            *)
(***************************************************************************)

\* Google was asked to verify the city and its answer was not a result
CityGoogleFailed ==
    /\ cityGoogle.status # "not_asked"
    /\ ~GoogleHasResult(FetchGoogleJson(cityGoogle))

\* C2: once the Google verification of the city has failed, use_google is
\* false from then on, before any lookup exists and while the lookups run,
\* and no lookup sends a request to Google.
C2_StickyDemotion ==
    CityGoogleFailed =>
        /\ ~use_google
        /\ \A i \in 1..Len(task) : \A k \in 1..Len(task[i].attempts) :
              task[i].attempts[k].provider # "google"

\* with a key set, Google failed on the city and the lookups then ran to the
\* end on Nominatim alone
C2_Witness ==
    /\ google_api_key
    /\ CityGoogleFailed
    /\ geoPc = "done"
    /\ Len(results) = MaxNbhd
    /\ \A i \in 1..Len(task) : Len(task[i].attempts) > 0
    /\ \E i \in 1..Len(results) : results[i].latitude # JNull

\* C3: no record a lookup returns carries latitude 0 together with
\* longitude 0: an answer of exactly (0, 0) counts as not found.
C3_NoZeroZero ==
    \A i \in 1..Len(task) :
        task[i].pc = "returned" =>
            ~(task[i].ret.latitude = JNum(0) /\ task[i].ret.longitude = JNum(0))

\* the pairs a lookup goes through when it starts with Google, or without
ExpectedPairs(withGoogle) ==
    (IF withGoogle
     THEN [k \in 1..Len(address_formats) |-> <<"google", k>>]
     ELSE <<>>)
    \o [k \in 1..Len(query_formats) |-> <<"nominatim", k>>]

\* C4: a lookup tries the templates of the preferred provider in list order,
\* then those of the next provider, each pair once; it stops at the first
\* accepted answer and returns null coordinates only after every pair was
\* tried without one.
C4_AttemptOrder ==
    \A i \in 1..Len(task) :
        LET a == task[i].attempts
            expected == ExpectedPairs(use_google)
        IN  /\ Len(a) <= Len(expected)
            /\ \A k \in 1..Len(a) :
                  /\ <<a[k].provider, a[k].template>> = expected[k]
                  /\ a[k].accepted => k = Len(a) /\ task[i].pc \in {"returned", "raised"}
            /\ task[i].pc = "returned" =>
                  /\ Len(a) > 0
                  /\ a[Len(a)].accepted <=> task[i].ret.latitude # JNull
                  /\ ~a[Len(a)].accepted => Len(a) = Len(expected)

\* one lookup went through all eight pairs and returned null, another one
\* stopped at an accepted Nominatim answer after Google had found nothing
C4_Witness ==
    /\ use_google
    /\ \E i \in 1..Len(task) :
          /\ task[i].pc = "returned"
          /\ Len(task[i].attempts) = Len(address_formats) + Len(query_formats)
          /\ task[i].ret.latitude = JNull
    /\ \E i \in 1..Len(task) :
          /\ task[i].pc = "returned"
          /\ Len(task[i].attempts) > Len(address_formats)
          /\ Len(task[i].attempts) < Len(address_formats) + Len(query_formats)
          /\ task[i].ret.latitude # JNull

\* gather has handed back the list of the lookups
GatherDone == geoPc = "done" /\ Len(task) > 0

\* C5: the list gather hands back has one record per input neighbourhood and
\* its i-th record carries the id and the name of the i-th input, whatever the
\* order in which the lookups finished.
C5_PositionalResults ==
    GatherDone =>
        /\ Len(results) = Len(neighbourhoods)
        /\ \A i \in 1..Len(results) :
              /\ results[i].id = neighbourhoods[i].id
              /\ results[i].neighbourhood_name = neighbourhoods[i].neighbourhood_name

\* the last lookup finished first, and a lookup ended with null coordinates
C5_Witness ==
    /\ GatherDone
    /\ Len(finished) = MaxNbhd
    /\ finished[1] = MaxNbhd
    /\ \E i \in 1..Len(results) : results[i].latitude = JNull
    /\ \E i \in 1..Len(results) : results[i].latitude # JNull

(***************************************************************************)
(* Properties of the chat session                                          *)
(***************************************************************************)

\* the known names a text contains, whatever the case of its letters
MentionedIn(text) ==
    {n \in SeqToSet(Keys(refined_data)) : Contains(PyLower(text), PyLower(n))}

\* this step is a call of get_response that came to an answer
AnsweredTurn ==
    /\ Len(conversation_history') = Len(conversation_history) + 1
    /\ lastTurn'.outcome = "answered"

\* new is old with the names of m put in front of it, cut to three names
MostRecentFirst(old, new, m) ==
    LET all == m \cup SeqToSet(old)
    IN  /\ Len(new) = (IF Cardinality(all) < 3 THEN Cardinality(all) ELSE 3)
        /\ \A i \in 1..Len(new) : new[i] \in all
        /\ \A i, j \in 1..Len(new) : i < j => new[i] # new[j]
        /\ \A i, j \in 1..Len(new) : i < j /\ new[j] \in m => new[i] \in m

\* C10: the list of recently mentioned neighbourhoods never holds more than
\* three names. After a turn whose response contains a known name, the
\* current neighbourhood is the first match and heads the list, and the list
\* is the names of this response followed by the names it held before, cut to
\* three; after a turn whose response contains no known name, the list and
\* the current neighbourhood are what they were when the response was scanned.
C10_RecentlyMentioned ==
    /\ [](Len(last_mentioned_neighborhoods) <= 3)
    /\ [][AnsweredTurn =>
            LET m == MentionedIn(lastTurn'.returned)
            IN  IF m # {}
                THEN /\ current_neighborhood'.t = "str"
                     /\ current_neighborhood'.s \in m
                     /\ last_mentioned_neighborhoods'[1] = current_neighborhood'.s
                     /\ MostRecentFirst(last_mentioned_neighborhoods,
                                        last_mentioned_neighborhoods', m)
                ELSE /\ last_mentioned_neighborhoods' = last_mentioned_neighborhoods
                     /\ current_neighborhood' = lastTurn'.subject_before_update]_vars

\* the resolved query of the turn this step appended to the history
QueryOfTurn == conversation_history'[Len(conversation_history')].resolved_user

\* v is the name of a neighbourhood of the data
Known(v) == v.t = "str" /\ HasKey(refined_data, v.s)

\* the first five names of the data
FirstFive == SubSeq(Keys(refined_data), 1,
                    IF Len(refined_data) < 5 THEN Len(refined_data) ELSE 5)

\* C11: after a turn that came to an answer and whose query holds no
\* comparison keyword, the window holds exactly one neighbourhood: the first
\* known one among the selection of the caller, the current neighbourhood of
\* the session and the first name found in the query; it holds the first
\* five neighbourhoods only when none of the three is known.
C11_SingleSubject ==
    [][AnsweredTurn /\ ~AnyIn(comparison_keywords, PyLower(QueryOfTurn)) =>
          LET named == FindMentionedNeighborhoods(QueryOfTurn, Keys(refined_data))
              cands == << PyGet(lastTurn'.selected, "name", JNull).val,
                          current_neighborhood,
                          IF named # <<>> THEN JStr(named[1]) ELSE JNull >>
              known == {i \in 1..3 : Known(cands[i])}
          IN  IF known # {}
              THEN lastTurn'.window.names =
                       <<cands[CHOOSE i \in known : \A j \in known : i <= j].s>>
              ELSE lastTurn'.window.names = FirstFive]_vars

RECURSIVE JoinWords(_)
\* the words of a sequence with one space between them
JoinWords(words) ==
    IF words = <<>> THEN ""
    ELSE IF Len(words) = 1 THEN words[1]
    ELSE words[1] \o " " \o JoinWords(Tail(words))

\* the message with every reference to the subject replaced by its name: the
\* words "it" and "its", also capitalized as the first word, and the three
\* phrases
WithSubject(message, subject) ==
    LET words == SplitOn(message, " ", "")
        word(i) == IF words[i] = "it" \/ (i = 1 /\ words[i] = "It") THEN subject
                   ELSE IF words[i] = "its" \/ (i = 1 /\ words[i] = "Its")
                        THEN subject \o "'s"
                   ELSE words[i]
    IN  PyReplace(PyReplace(PyReplace(
            JoinWords([i \in 1..Len(words) |-> word(i)]),
            "that neighborhood", subject), "this place", subject), "that place", subject)

\* C12: a call of _resolve_pronouns_and_references with a current
\* neighbourhood returns the message with every "its" replaced by the name
\* and 's, and every "it", "that neighborhood", "this place" and "that place"
\* replaced by the name, also when the pronoun is the capitalized first word;
\* without a current neighbourhood it returns the message as it is. (Messages
\* with "there" are left out: the statement does not say what becomes of it.)
C12_ReferencesResolved ==
    (resolveCall.returned # JNull /\ ~Contains(PyLower(resolveCall.message), "there")) =>
        resolveCall.returned.s =
            IF resolveCall.current = JNull THEN resolveCall.message
            ELSE WithSubject(resolveCall.message, resolveCall.current.s)

\* the topics and their keywords; response tells whether the keywords are
\* looked for in the response as well as in the message of the user
TopicTable ==
    << [topic |-> "green_score", keywords |-> <<"green score">>, response |-> TRUE],
       [topic |-> "air_quality", keywords |-> <<"air quality">>, response |-> TRUE],
       [topic |-> "water_quality", keywords |-> <<"water quality">>, response |-> TRUE],
       [topic |-> "walkability", keywords |-> <<"walkability">>, response |-> TRUE],
       [topic |-> "lewc_score", keywords |-> <<"lewc", "environmental risk">>,
        response |-> FALSE],
       [topic |-> "co2_savings", keywords |-> <<"co2", "carbon", "emissions">>,
        response |-> FALSE] >>

\* the topics a keyword of which is in the message of the user or, where
\* inResponse allows it, in the response; in the order of the table
TopicsIn(user, response, inResponse) ==
    LET found(row) == \/ AnyIn(row.keywords, PyLower(user))
                      \/ inResponse[row.response] /\ AnyIn(row.keywords, PyLower(response))
        pick(row)  == IF found(row) THEN <<row.topic>> ELSE <<>>
    IN  pick(TopicTable[1]) \o pick(TopicTable[2]) \o pick(TopicTable[3])
        \o pick(TopicTable[4]) \o pick(TopicTable[5]) \o pick(TopicTable[6])

\* the topics of the turn this step answered, with the keywords of every
\* topic looked for in both texts
TopicsOfBothTexts ==
    TopicsIn(QueryOfTurn, lastTurn'.returned, [b \in BOOLEAN |-> TRUE])

\* the same, with the keywords of the last two topics looked for in the
\* message of the user only
TopicsOfTurn ==
    TopicsIn(QueryOfTurn, lastTurn'.returned, [b \in BOOLEAN |-> b])

C14_ErrorTurnRecorded ==
    [][lastTurn'.outcome = "error" =>
          /\ lastTurn'.returned = sorry
          /\ Len(conversation_history') = Len(conversation_history) + 1
          /\ SubSeq(conversation_history', 1, Len(conversation_history))
                 = conversation_history
          /\ conversation_history'[Len(conversation_history')].response = JNull]_vars

\* C15: when reset has returned, in whatever state it was called, the
\* history is empty, the current neighbourhood is null, the list of mentioned
\* neighbourhoods, the list of topics and the facts are empty and the token
\* count is 0, as after __init__; refined_data, lewc_data and definitions_data
\* are what _load_data read.
C15_ResetClears ==
    lastTurn.outcome = "reset" =>
        /\ conversation_history = <<>>
        /\ current_neighborhood = JNull
        /\ last_mentioned_neighborhoods = <<>>
        /\ last_discussed_topics = <<>>
        /\ session_facts = NoFacts
        /\ total_tokens = 0
        /\ refined_data = DataFile
        /\ lewc_data = LewcFile
        /\ definitions_data = SummaryFile

\* reset has returned
C15_Witness ==
    /\ lastTurn.outcome = "reset"
    /\ conversation_history = <<>>
    /\ current_neighborhood = JNull

\* the session state of the chatbot instance
session == <<conversation_history, current_neighborhood, last_mentioned_neighborhoods,
             last_discussed_topics, session_facts, total_tokens>>

\* C16: while a chat_message request is being served, between its first and
\* its last access to the session state, no other operation of the API
\* changes the session state: every step taken meanwhile is the rest of this
\* request or leaves the session state as it is.
C16_OneOperationAtATime ==
    [][inflight.pc = "generating" => inflight'.pc = "idle" \/ UNCHANGED session]_vars

\* the last call put a message into the history and went on to build the
\* window, and its query holds a comparison keyword
ComparisonTurn ==
    /\ lastTurn.outcome \in {"answered", "error"}
    /\ conversation_history # <<>>
    /\ lastTurn.selected.t # "str"
    /\ AnyIn(<<"highest", "lowest", "best", "worst", "top", "bottom", "compare">>,
             PyLower(conversation_history[Len(conversation_history)].resolved_user))

\* C17: the window built for a query that holds one of the keywords highest,
\* lowest, best, worst, top, bottom and compare names every neighbourhood of
\* the data, in the order of the data, whatever the current neighbourhood and
\* the selected neighbourhood are.
C17_ComparisonWindow ==
    ComparisonTurn => lastTurn.window.names = Keys(refined_data)

\* a comparison has been answered in a turn that was handed a selected
\* neighbourhood, in a session that had a current neighbourhood
C17_Witness ==
    /\ ComparisonTurn
    /\ lastTurn.outcome = "answered"
    /\ lastTurn.selected # JNull
    /\ Len(conversation_history) >= 2
    /\ Len(lastTurn.window.names) = Len(refined_data)

(***************************************************************************)
(* Properties of the rewriting stage                                       *)
(***************************************************************************)

\* the attempts of the running call that ended in the except clause
FailedCall(kind) == kind \in {"raises", "no_content"}

\* the text a call of that kind hands back
TextOfCall(kind) == IF kind = "text" THEN JStr("Broadmor breathes easy.") ELSE JStr("")

\* the waits after the first n failed attempts
DoublingWaits(n) == SubSeq(<<1, 2>>, 1, n)

\* at most three calls, none after a success, a wait of 1 and then of 2
\* seconds after the failures, and the text or null at the return
RetrySchedule ==
    rwPc \in {"rewriting", "returned"} =>
        LET calls == rewrite.calls
            n     == Len(calls)
        IN  /\ n <= 3
            /\ \A i \in 1..(n - 1) : FailedCall(calls[i])
            /\ rwPc = "rewriting" =>
                   /\ n < 3
                   /\ \A i \in 1..n : FailedCall(calls[i])
                   /\ rewrite.sleeps = DoublingWaits(n)
            /\ rwPc = "returned" =>
                   /\ n >= 1
                   /\ IF FailedCall(calls[n])
                      THEN n = 3 /\ rewrite.returned = JNull /\ rewrite.sleeps = <<1, 2>>
                      ELSE /\ rewrite.returned = TextOfCall(calls[n])
                           /\ rewrite.sleeps = DoublingWaits(n - 1)

\* C18: a call of rewrite_explanation_with_cerebras makes at most three
\* generation calls and always returns: the text of the first call that
\* succeeds, with no call after it, a wait of 1 second after the first
\* failure and of 2 seconds after the second, and null without a wait after
\* the third failure.
C18_BoundedRetries ==
    /\ []RetrySchedule
    /\ (rwPc = "rewriting") ~> (rwPc = "returned")

\* a call has failed three times and returned null after waits of 1 and 2
\* seconds
C18_Witness ==
    /\ rwPc = "returned"
    /\ Len(rewrite.calls) = 3
    /\ \A i \in 1..3 : FailedCall(rewrite.calls[i])
    /\ rewrite.returned = JNull
    /\ rewrite.sleeps = <<1, 2>>

\* the explanations whose call returned null hold the text of the input
FailedKeepOriginal(all) ==
    \A i \in 1..Len(rwLog) :
        rwLog[i].new_text = JNull => TextAt(all, rwLog[i]) = TextAt(rwInput.data, rwLog[i])

\* every explanation of the input has been taken up, in the order of the file
EveryExplanationProcessed ==
    /\ Len(rwLog) = Len(Explanations(rwInput.data))
    /\ \A i \in 1..Len(rwLog) :
          /\ rwLog[i].n = Explanations(rwInput.data)[i].n
          /\ rwLog[i].key = Explanations(rwInput.data)[i].key

\* the file holds every neighbourhood of the input, with the rewritten texts
\* where a call returned one and the texts of the input elsewhere
ReportWritten ==
    /\ rwFile.written
    /\ Len(rwFile.content) = Len(rwInput.data)
    /\ \A n \in 1..Len(rwInput.data) :
          /\ rwFile.content[n].name = rwInput.data[n].name
          /\ DOMAIN HomeownersOf(rwFile.content[n].data).d
                = DOMAIN HomeownersOf(rwInput.data[n].data).d
    /\ FailedKeepOriginal(rwFile.content)
    /\ \A i \in 1..Len(rwLog) :
          Truthy(rwLog[i].new_text) => TextAt(rwFile.content, rwLog[i]) = rwLog[i].new_text

\* a failed rewrite changes nothing, ends nothing, and the run ends with the
\* whole report written
FailureTolerated ==
    /\ FailedKeepOriginal(all_neighborhood_data)
    /\ rwPc = "exit" => rwLog = <<>> /\ rwPos = 0
    /\ rwPc = "done" => EveryExplanationProcessed /\ ReportWritten

\* C19: an explanation whose rewrite failed on the last attempt keeps the
\* text of the input in the output; the stage does not abort on it, and every
\* explanation and neighbourhood after it is still processed and written.
C19_OriginalKept ==
    /\ []FailureTolerated
    /\ (rwPc = "returned" /\ rewrite.returned = JNull) ~> (rwPc = "done" /\ ReportWritten)

\* the report is written with an explanation that kept its text after three
\* failures and a later neighbourhood's explanation rewritten
C19_Witness ==
    /\ rwPc = "done"
    /\ rwFile.written
    /\ \E i, j \in 1..Len(rwLog) :
          /\ rwLog[i].new_text = JNull
          /\ rwLog[j].n > rwLog[i].n
          /\ Truthy(rwLog[j].new_text)
          /\ TextAt(rwFile.content, rwLog[i]) = TextAt(rwInput.data, rwLog[i])
          /\ TextAt(rwFile.content, rwLog[j]) # TextAt(rwInput.data, rwLog[j])

(***************************************************************************)
(* Properties of the aggregation stage                                     *)
(***************************************************************************)

RECURSIVE SumOver(_, _)
\* the sum of the numbers under the keys K of the dict h
SumOver(h, K) ==
    IF K = {} THEN 0
    ELSE LET k == CHOOSE j \in K : TRUE
         IN  NumberOf(h.d[k]) + SumOver(h, K \ {k})

\* g hundredths is the mean of the numbers under the keys K of h, rounded to
\* two decimals; 0.0 when K is empty
IsRoundedMean(g, h, K) ==
    IF K = {} THEN g = 0
    ELSE 2 * (g * Cardinality(K) - 100 * SumOver(h, K)) \in -Cardinality(K)..Cardinality(K)

\* the key ends in one of the explanation suffixes
ExplanationSuffixed(key) ==
    \E suffix \in {"_exp", "_reason", "_explanation"} :
        /\ Len(key) >= Len(suffix)
        /\ SubSeq(key, Len(key) - Len(suffix) + 1, Len(key)) = suffix

\* the keys of h that hold a number and are not explanation-suffixed
NumericMetricKeys(h) ==
    {k \in DOMAIN h.d : h.d[k].t = "num" /\ ~ExplanationSuffixed(k)}

\* the keys of h that score_keys lists and that hold a number or a boolean
ListedNumericKeys(h) ==
    {k \in DOMAIN h.d : /\ \E i \in 1..Len(score_keys) : score_keys[i] = k
                         /\ h.d[k].t \in {"num", "bool"}}

\* the homeowners data the i-th entry of the report was computed from
SourceOf(i) == HomeownersData(personalized_data.data[i].data)

SameButScore(a, b) ==
    /\ a.name = b.name
    /\ \A k \in {"id", "name", "coordinates", "description", "homeowners"} :
          GetOrNone(a.data, k) = GetOrNone(b.data, k)

\* C21: the aggregation stage run on its own output writes the same report
\* again: every entity with the same id, name, coordinates, description and
\* homeowners metrics and explanations, and the same green_score.
C21_Idempotent ==
    gsRun = 2 /\ gsPc = "done" =>
        /\ Len(gsFile.content) = Len(personalized_data.data)
        /\ \A i \in 1..Len(gsFile.content) :
              /\ SameButScore(gsFile.content[i], personalized_data.data[i])
              /\ gsFile.content[i].data.d.green_score
                    = personalized_data.data[i].data.d.green_score

\* the second run has written a report with an entity whose score needed
\* rounding and whose data holds a key that is not averaged
C21_Witness ==
    /\ gsRun = 2
    /\ gsPc = "done"
    /\ \E i \in 1..Len(gsFile.content) :
          /\ gsFile.content[i].data.d.green_score = JFloat(733)
          /\ "noise_level" \in DOMAIN gsFile.content[i].data.d.homeowners.d

(***************************************************************************)
(* Properties of the feature-aggregation stage                             *)
(***************************************************************************)

\* the record at place i of the input has an entry in the written file
Emitted(i) ==
    \E j \in 1..Len(feFile.content) :
        /\ feFile.content[j].data.d.id = GetOrNone(feInput.data[i], "id")
        /\ feFile.content[j].data.d.name = GetOrNone(feInput.data[i], "neighbourhood_name")

\* the value is null or missing
IsNull(hood, key) == GetOrNone(hood, key) = JNull

\* the value is null, missing or the number zero
IsNullOrZero(hood, key) == IsNull(hood, key) \/ GetOrNone(hood, key) = JNum(0)

\* the record has a name that is not empty
IsNamed(hood) ==
    /\ ~IsNull(hood, "neighbourhood_name")
    /\ GetOrNone(hood, "neighbourhood_name") # JStr("")

\* C22: in the file the stage writes, every record of the input whose
\* latitude or longitude is null is absent, every other record with a name is
\* present, and the file holds no more entries than the input holds records.
C22_NullCoordinatesSkipped ==
    fePc = "done" =>
        /\ Len(feFile.content) <= Len(feInput.data)
        /\ \A i \in 1..Len(feInput.data) :
              LET hood == feInput.data[i]
              IN  IF IsNull(hood, "latitude") \/ IsNull(hood, "longitude")
                  THEN ~Emitted(i)
                  ELSE IsNamed(hood) => Emitted(i)

\* C22, amended: in the file the stage writes, a record of the input is
\* present exactly when its name is not empty and its latitude and longitude
\* are neither null nor zero; a record with a coordinate of 0 is skipped like
\* one with a null coordinate, and the file holds no more entries than the
\* input holds records.
C22_FalsyCoordinatesSkipped ==
    fePc = "done" =>
        /\ Len(feFile.content) <= Len(feInput.data)
        /\ \A i \in 1..Len(feInput.data) :
              LET hood == feInput.data[i]
              IN  Emitted(i) <=> /\ IsNamed(hood)
                                 /\ ~IsNullOrZero(hood, "latitude")
                                 /\ ~IsNullOrZero(hood, "longitude")

\* a file is written for an input of two named records, one of them with a
\* null latitude, and holds the other one only
C22_Witness ==
    /\ fePc = "done"
    /\ Len(feInput.data) = 2
    /\ Len(feFile.content) = 1
    /\ \E i \in 1..2 :
          /\ IsNamed(feInput.data[i])
          /\ IsNull(feInput.data[i], "latitude")
          /\ ~IsNullOrZero(feInput.data[i], "longitude")
          /\ ~Emitted(i)
          /\ Emitted(3 - i)

\* the homeowners data written for the k-th entry of the log
WrittenFor(k) ==
    LET name == feInput.data[feLog[k].place].d.neighbourhood_name.s
        j    == CHOOSE i \in 1..Len(initial_data) : initial_data[i].name = name
    IN  initial_data[j].data.d.homeowners.d

\* the rating of the table for a reading
AqiTable(reading) ==
    CASE reading \in 0..25    -> 10
      [] reading \in 26..50   -> 8
      [] reading \in 51..100  -> 6
      [] reading \in 101..150 -> 4
      [] OTHER                 -> 2

\* C23: aqi_to_rating gives 10 for a reading up to 25, 8 up to 50, 6 up to 100,
\* 4 up to 150, 2 above 150 and 5 for a null reading, a reading of exactly 100
\* giving 6; and that is the rating written for the reading that was fetched.
C23_AqiRating ==
    /\ \A reading \in 0..MaxCount : aqi_to_rating(JNum(reading)) = AqiTable(reading)
    /\ aqi_to_rating(JNull) = 5
    /\ aqi_to_rating(JNum(100)) = 6
    /\ \A k \in 1..Len(feLog) :
          WrittenFor(k).air_quality =
              JNum(IF feLog[k].aqi = JNull THEN 5 ELSE AqiTable(feLog[k].aqi.n))

\* a neighbourhood is written for which the reading 100 was fetched, with the
\* rating 6
C23_Witness ==
    /\ fePc = "done"
    /\ \E k \in 1..Len(feLog) :
          /\ feLog[k].aqi = JNum(100)
          /\ WrittenFor(k).air_quality = JNum(6)
          /\ WrittenFor(k).aqi_reason
                = JStr("Air quality rating is 6/10 based on regional data.")

\* the scores of the threshold tables for a count
GreeneryTable(count) ==
    CASE count >= 6 -> 9 [] count \in 3..5 -> 7 [] count \in 1..2 -> 5 [] OTHER -> 2
WalkabilityTable(count) ==
    CASE count >= 101 -> 10 [] count \in 51..100 -> 8 [] count \in 21..50 -> 6
      [] count \in 6..20 -> 4 [] OTHER -> 2
TransitTable(count) ==
    CASE count >= 21 -> 9 [] count \in 11..20 -> 7 [] count \in 6..10 -> 5
      [] count \in 1..5 -> 3 [] OTHER -> 1
CircularEconomyTable(count) ==
    CASE count >= 6 -> 8 [] count \in 3..5 -> 6 [] count \in 1..2 -> 4 [] OTHER -> 2

\* the four mappings equal their tables up to the largest count
MappingsEqualTables ==
    \A count \in 0..(2 * MaxCount) :
        /\ score_greenery(count) = GreeneryTable(count)
        /\ score_walkability(count) = WalkabilityTable(count)
        /\ score_transit(count) = TransitTable(count)
        /\ score_circular_economy(count) = CircularEconomyTable(count)

\* a larger count never gives a smaller score
MappingsMonotonic ==
    \A count \in 0..(2 * MaxCount - 1) :
        /\ score_greenery(count) <= score_greenery(count + 1)
        /\ score_walkability(count) <= score_walkability(count + 1)
        /\ score_transit(count) <= score_transit(count + 1)
        /\ score_circular_economy(count) <= score_circular_economy(count + 1)

\* C24: each count-to-score mapping equals its threshold table and never
\* decreases: greenery >5 9, >=3 7, >=1 5, else 2 (so 6 parks give 9);
\* walkability >100 10, >50 8, >20 6, >5 4, else 2; transit >20 9, >10 7,
\* >5 5, >0 3, else 1; circular economy >5 8, >2 6, >0 4, else 2. The scores
\* written for a neighbourhood are the mappings of the counts returned for it,
\* walkability taking the sum of the restaurant and the supermarket count.
C24_CountScores ==
    /\ MappingsEqualTables
    /\ MappingsMonotonic
    /\ score_greenery(6) = 9
    /\ \A k \in 1..Len(feLog) :
          LET c == feLog[k].counts
          IN  /\ WrittenFor(k).greenery_coverage = JNum(GreeneryTable(c[1]))
              /\ WrittenFor(k).walkability = JNum(WalkabilityTable(c[2] + c[3]))
              /\ WrittenFor(k).public_transit_access = JNum(TransitTable(c[4]))
              /\ WrittenFor(k).circular_economy_indicators
                    = JNum(CircularEconomyTable(c[5]))

\* a neighbourhood is written for which 6 parks were counted, with the
\* greenery score 9
C24_Witness ==
    /\ fePc = "done"
    /\ \E k \in 1..Len(feLog) :
          /\ feLog[k].counts[1] = 6
          /\ WrittenFor(k).greenery_coverage = JNum(9)
          /\ WrittenFor(k).greenery_coverage_exp = JStr("Based on finding 6 parks nearby.")

\* the request did not bring a JSON body: no connection, an error status, or
\* a body that cannot be parsed
FailedKinds == {"network_error", "error_status", "not_json"}

\* the count of a failed query is 0 and the score written is that of 0
FailedCountsZero ==
    \A k \in 1..Len(feLog) :
        LET c == feLog[k].counts
            f == feLog[k].failed
        IN  /\ \A q \in 1..Len(c) : f[q] => c[q] = 0
            /\ f[1] => WrittenFor(k).greenery_coverage = JNum(2)
            /\ f[2] /\ f[3] => WrittenFor(k).walkability = JNum(2)
            /\ f[4] => WrittenFor(k).public_transit_access = JNum(1)
            /\ f[5] => WrittenFor(k).circular_economy_indicators = JNum(2)

\* C25: a feature-count query that fails (no connection, an error status or
\* a body that cannot be parsed) counts as 0; the stage does not abort on it,
\* the neighbourhood is written with the score of the count 0, and the
\* neighbourhoods after it are processed and written.
C25_FailedQueryCountsZero ==
    /\ feHood.last \in FailedKinds /\ feHood.step >= 2 =>
          /\ fePc = "fetching"
          /\ feHood.counts[Len(feHood.counts)] = 0
    /\ fePc \in {"crashed", "exit"} => feHood.last \notin FailedKinds
    /\ FailedCountsZero
    /\ fePc = "done" =>
          /\ feFile.written
          /\ \A i \in 1..Len(feInput.data) :
                HasNameAndCoordinates(feInput.data[i]) =>
                    /\ Emitted(i)
                    /\ \E k \in 1..Len(feLog) : feLog[k].place = i

\* the park query of the first neighbourhood failed and no other; the file
\* is written with greenery 2 for it and with the next neighbourhood
C25_Witness ==
    /\ fePc = "done"
    /\ Len(feLog) >= 2
    /\ feLog[1].failed = <<TRUE, FALSE, FALSE, FALSE, FALSE>>
    /\ feLog[1].counts = <<0, 6, 6, 6, 6>>
    /\ WrittenFor(1).greenery_coverage = JNum(2)
    /\ WrittenFor(1).greenery_coverage_exp = JStr("Based on finding 0 parks nearby.")
    /\ feLog[2].failed = <<FALSE, FALSE, FALSE, FALSE, FALSE>>
    /\ WrittenFor(2).greenery_coverage = JNum(9)
    /\ Len(feFile.content) = 2

\* the input of the stage is missing or holds no entity
NoInput(input) == ~input.exists \/ input.data = <<>>

\* C26: a stage whose input file does not exist or whose input holds no
\* entity aborts with a non-zero exit status; it does not write an output
\* file and end successfully. Stated for the feature-aggregation, the
\* rewriting and the aggregation stage.
C26_MissingInputFatal ==
    /\ NoInput(feInput) => fePc # "done" /\ ~feFile.written
    /\ NoInput(rwInput) => rwPc # "done" /\ ~rwFile.written
    /\ gsRun = 1 /\ NoInput(personalized_data) => gsPc # "done" /\ ~gsFile.written

(***************************************************************************)
(* Further properties of the geocoding stage                               *)
(***************************************************************************)

\* the Google request for the city itself failed outright: no HTTP answer
\* with a body came back
CityGoogleFailedOutright == cityGoogle.status \notin {"ok", "not_asked"}

\* Google was configured and is no longer the provider the lookups use
Demoted == google_api_key /\ ~use_google

\* C27: Google is demoted if and only if its verification call for the city
\* fails outright (transport error or error status); an answer that merely
\* holds no results does not demote it, and no step of a neighbourhood
\* lookup changes the preference the other lookups see.
C27_DemotedOnlyOnOutrightFailure ==
    /\ [](Demoted <=> CityGoogleFailedOutright)
    /\ [][geoPc = "gather" => use_google' = use_google]_vars

(***************************************************************************)
(* Properties of the scan for neighbourhood names                          *)
(***************************************************************************)

\* the places of the text where the word begins
OccurrencesOf(text, word) ==
    {i \in 1..(Len(text) - Len(word) + 1) : SubSeq(text, i, i + Len(word) - 1) = word}

\* every place where short stands in the text lies inside a place where long
\* stands
OnlyInside(text, short, long) ==
    \A i \in OccurrencesOf(text, short) :
        \E j \in OccurrencesOf(text, long) :
            j <= i /\ i + Len(short) <= j + Len(long)

\* the names of a list
NamesOf(names) == {names[i] : i \in 1..Len(names)}

\* name a is another name than b and stands inside it
InsideName(a, b) == a # b /\ Contains(PyLower(b), PyLower(a))

\* the names of the list that are looked for before names[i]: the longer
\* ones, and those of its length that come before it in the list
ScannedBefore(names, i) ==
    {names[k] : k \in {j \in 1..Len(names) :
                          \/ Len(names[j]) > Len(names[i])
                          \/ Len(names[j]) = Len(names[i]) /\ j < i}}

MetricOf(key) ==
    score_keys[CHOOSE i \in 1..Len(explanation_keys) : explanation_keys[i] = key]

\* C29: for each explanation the rewrite stage takes up, the score given to
\* the prompt is the numeric score of the metric the explanation belongs to,
\* never a placeholder and never the explanation text itself.
C29_PromptScoreIsMetricScore ==
    rwPc \in {"rewriting", "returned"} =>
        LET p == Explanations(all_neighborhood_data)[rwPos]
            homeowners_data == HomeownersOf(all_neighborhood_data[p.n].data).d
        IN  /\ rewrite.prompt.score.t = "num"
            /\ rewrite.prompt.score = homeowners_data[MetricOf(p.key)]

(***************************************************************************)
(* Properties of the conversation history                                  *)
(***************************************************************************)

\* the step is a call of get_response, from entry to return
GetResponseReturns == lastTurn'.outcome # "reset"

\* the history after the step is the history before it and one entry more
OneEntryAppended ==
    /\ Len(conversation_history') = Len(conversation_history) + 1
    /\ SubSeq(conversation_history', 1, Len(conversation_history)) = conversation_history

\* C30: every call of get_response adds exactly one entry to the end of the
\* history and leaves the earlier entries as they were, reset empties the
\* history, and the response of the entry added is non-null exactly when the
\* message was not empty and no exception ended the call.
C30_OneEntryPerCall ==
    [][IF GetResponseReturns
       THEN /\ OneEntryAppended
            /\ LET entry == conversation_history'[Len(conversation_history')]
               IN  entry.response # JNull
                       <=> (PyStrip(entry.user) # "" /\ lastTurn'.outcome # "error")
       ELSE conversation_history' = <<>>]_vars

====
